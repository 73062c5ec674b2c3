----------------------------- MODULE ESLConfig ------------------------------
(***************************************************************************)
(* The validators of ESLConfig and normalize_sip_profiles (config.py).     *)
(*                                                                         *)
(* A raw setting is a number, in halves so that int() has something to cut *)
(* off, or nothing a finite number can be made of.                         *)
(***************************************************************************)
EXTENDS Integers, SequencesExt

RawValue == [number : BOOLEAN, halves : Int]
Number(h) == [number |-> TRUE, halves |-> h]
NotANumber == [number |-> FALSE, halves |-> 0]

Setting(default, min, max) == [default |-> default, min |-> min, max |-> max]
TimeoutSetting == Setting(10, 1, 30)
HeaderSetting == Setting(64 * 1024, 1024, 1024 * 1024)
BodySetting == Setting(1024 * 1024, 1024, 16 * 1024 * 1024)
FrameSetting ==
  Setting(HeaderSetting.default + BodySetting.default,
          HeaderSetting.min + BodySetting.min, HeaderSetting.max + BodySetting.max)

(* min(max(float(value), MIN), MAX), or the default; in halves.             *)
Clamped(s, raw) ==
  IF ~raw.number THEN 2 * s.default
  ELSE IF raw.halves < 2 * s.min THEN 2 * s.min
  ELSE IF raw.halves > 2 * s.max THEN 2 * s.max ELSE raw.halves

normalize_timeout(raw) == Clamped(TimeoutSetting, raw)
normalize_max_header_bytes(raw) == Clamped(HeaderSetting, raw) \div 2
normalize_max_body_bytes(raw) == Clamped(BodySetting, raw) \div 2
normalize_max_frame_bytes(raw) == Clamped(FrameSetting, raw) \div 2

DEFAULT_SIP_PROFILES == <<"wg", "vpc">>
MAX_SIP_PROFILES == 4

(* A value is absent, a list, or something else; `safe' are the strings     *)
(* that match _SIP_PROFILE_RE.                                              *)
normalize_sip_profiles(kind, items, safe) ==
  LET keep(profiles, item) ==
        IF item \in safe /\ item \notin Range(profiles) /\ Len(profiles) < MAX_SIP_PROFILES
        THEN Append(profiles, item) ELSE profiles
  IN  IF kind = "absent" THEN DEFAULT_SIP_PROFILES
      ELSE IF kind = "list" THEN FoldLeft(keep, <<>>, items) ELSE <<>>
=============================================================================
