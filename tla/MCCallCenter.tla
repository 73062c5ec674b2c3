---------------------------- MODULE MCCallCenter -----------------------------
(* CallCenter with one agent and one queue, asked for by every kind of name. *)
EXTENDS CallCenter

mcSpelling ==
  "ann@acme" :> <<"ann", "@", "acme">> @@ "help@acme" :> <<"help", "@", "acme">> @@
  "ann" :> <<"ann">> @@ "ann@" :> <<"ann", "@">> @@ "ann b" :> <<"ann", " ", "b">> @@
  "ann@acme@x" :> <<"ann", "@", "acme", "@", "x">> @@ "wg" :> <<"wg">> @@
  "help" :> <<"help">> @@
  "u1" :> <<"u1">> @@ "u2" :> <<"u2">> @@ "XML" :> <<"XML">> @@ "public" :> <<"public">> @@
  "1901" :> <<"1901">> @@ "-bleg" :> <<"-", "bleg">> @@ "-both" :> <<"-", "both">> @@
  "1901 XML" :> <<"1901", " ", "XML">> @@ "NORMAL_CLEARING" :> <<"NORMAL_CLEARING">> @@
  "normal clearing" :> <<"normal", " ", "clearing">> @@
  "/rec/1.wav" :> <<"/rec/", "1.wav">> @@ "/rec/../1.wav" :> <<"/rec/", "..", "1.wav">>

mcGiven == {"ann@acme", "ann", "help@acme", "ann b", "ann@acme@x"}
mcContacts == {<<"user/ann">>}
mcDialStrings == {<<"user/ann">>, <<"user/ann", "user/bob">>}
mcColumns == {<<"name", "contact", "status", "state">>,
              <<"name", "system", "state", "contact", "status">>}
mcRaw == {<<"show", "channels", "as", "json">>,
          <<"sofia", "status", "profile", "wg", "reg">>,
          <<CC, "agent", "del", "ann@acme">>,
          <<CC, "tier", "del", "help@acme", "ann@acme">>,
          <<CC, "agent", "set", "status", "ann@acme", "On Break">>}
=============================================================================
