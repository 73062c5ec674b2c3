------------------------------ MODULE MCStory -------------------------------
(* CallStory with numbers and times written as they are in frames and rows.  *)
EXTENDS CallStory

mcText == [k \in 0..MaxTime |-> <<"0", "1", "2", "3", "4">>[k + 1]]
mcStamp ==
  [k \in 0..MaxTime |-> <<"1970-01-01 00:00:00", "2026-01-01 00:00:01", "2026-01-01 00:00:02",
                          "2026-01-01 00:00:03", "2026-01-01 00:00:04">>[k + 1]]
=============================================================================
