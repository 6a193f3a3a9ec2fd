---------------------------- MODULE MappingResult ----------------------------
(***************************************************************************)
(* What the classifiers tell the boundary (types.py: Requirement,          *)
(* MappingResult).  A requirement is a pair <<action, resource>>; every    *)
(* classifier passes its other effects in also_requires.                   *)
(***************************************************************************)
EXTENDS Naturals, Sequences

NoReason == "none"
Reasons == {NoReason, "malformed_payload", "parse_unsafe", "unsafe_shell"}

Mapped(primary, also) ==
  [kind |-> "mapped", reason |-> NoReason, primary |-> primary, also_requires |-> also]

\* A call with one effect.
Charged(action, resource) == Mapped(<<action, resource>>, <<>>)

NoPair == <<>>

Unmapped(reason) ==
  [kind |-> "unmapped", reason |-> reason, primary |-> NoPair, also_requires |-> <<>>]

Refused(reason) ==
  [kind |-> "error", reason |-> reason, primary |-> NoPair, also_requires |-> <<>>]

\* An exception instead of an answer.
Raised == [kind |-> "raise", reason |-> NoReason, primary |-> NoPair, also_requires |-> <<>>]

MappingResults(Pairs) ==
  {result \in [kind : {"mapped", "unmapped", "error", "raise"}, reason : Reasons,
               primary : Pairs \cup {NoPair}, also_requires : Seq(Pairs)] :
     result.kind = "mapped" => result.primary \in Pairs}

\* The pairs the boundary asks for, the primary first.
Requirements(result) ==
  IF result.kind = "mapped" THEN <<result.primary>> \o result.also_requires ELSE <<>>

\* The same as a set: what has to be permitted for the call to run.
Effects(result) == {Requirements(result)[i] : i \in 1..Len(Requirements(result))}
=============================================================================
