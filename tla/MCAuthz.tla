------------------------------ MODULE MCAuthz ------------------------------
(* Every permission set of at most MaxEntries entries over two values, one  *)
(* of them empty, two effects and one nobody knows, two term types and one   *)
(* nobody knows, against every principal over the same values.               *)
EXTENDS AuthzPasses, SequencesExt

CONSTANT MaxEntries

MCValues == {"", "alice"}
MCEntries == [effect : {Allow, Deny, "grant"}, type : {TermUser, TermGroup, "audience"},
              value : MCValues]
MCSets == BoundedSeq(MCEntries, MaxEntries)
MCAskers == [subject : MCValues, groups : SUBSET MCValues]

=============================================================================
