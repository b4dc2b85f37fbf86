-------------------------- MODULE AdapterRegister ---------------------------
(***************************************************************************)
(* contract/adapters.go: every package that implements the runtime contract *)
(* is registered, and every registered one implements it and hands itself  *)
(* to the suite.                                                           *)
(*                                                                         *)
(* What is read of a file is the methods it declares, as pairs of a type   *)
(* and a name, and whether it calls contract.Run.                          *)
(***************************************************************************)
EXTENDS Naturals

operations == {"Capabilities", "Embed", "Generate"}

\* The files of the kind that parse; the others are passed over.
Scan(files, tests) == {f \in files : f.tests = tests /\ f.parses}

\* One type of the file has all three operations, in the file itself.
Complete(f) == \E m \in f.methods : {m[1]} \X operations \subseteq f.methods

Implementations(files) == {f.pkg : f \in {f \in Scan(files, FALSE) : Complete(f)}}

RunsTheSuite(f) == f.runs

Covered(files) == {f.pkg : f \in {f \in Scan(files, TRUE) : RunsTheSuite(f)}}

Registered(pkg, says) == [pkg |-> pkg, says |-> says]

CheckRegister(files, registered) ==
    {Registered(p, "not-registered") : p \in Implementations(files) \ registered}
    \cup {Registered(p, "nothing-there") : p \in registered \ Implementations(files)}
    \cup {Registered(p, "not-covered") :
            p \in (registered \cap Implementations(files)) \ Covered(files)}

=============================================================================
