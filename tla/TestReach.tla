------------------------------ MODULE TestReach -----------------------------
(***************************************************************************)
(* internal/testreach: the test files of the default run, and what each of  *)
(* them reaches outside the process by a call or a name written in it.      *)
(*                                                                         *)
(* What the build constraint of a file comes to is the set of the tag sets   *)
(* it is built with; a constraint is taken to stand where the toolchain      *)
(* reads it.  Of the file itself its writings are read: calls, bindings, and  *)
(* the literals a string is joined of, each the names on its path.  An        *)
(* argument is a host in a string of some form, or is computed.              *)
(***************************************************************************)
EXTENDS SequencesExt, FiniteSetsExt, Integers

CONSTANTS
    Tags, MarkTag,
    TestDirs      \* the directories with a directory "test" on their path

ASSUME TagsAssumption == IsFiniteSet(Tags) /\ MarkTag \in Tags

\* Each reacher with the position of its address and the form it has to take.
HostPort == {"Dial", "DialTimeout", "Listen", "ListenPacket", "ResolveTCPAddr", "ResolveUDPAddr"}
Lookups == {"LookupAddr", "LookupHost", "LookupIP"}
URLs == {"Get", "Head", "Post", "PostForm"}

reachers ==
    [net |-> [fn \in HostPort \cup Lookups |->
                 IF fn \in Lookups THEN [addr |-> 0, kind |-> "always"]
                 ELSE [addr |-> 2, kind |-> "host:port"]],
     http |-> [fn \in URLs |-> [addr |-> 1, kind |-> "url"]]]

minimumReasonWords == 3

devicesThatAreNotDevices == {"null", "urandom"}

\* Plausible slip: a file whose constraint names the mark is taken for a marked one.
MarkedByName(f) == \E on \in f.built : on \cup {MarkTag} \notin f.built \/ on \ {MarkTag} \notin f.built

\* With the mark off and every other tag on, the file is not built.
Marked(f) == Tags \ {MarkTag} \notin f.built

-----------------------------------------------------------------------------
(* One test file *)

\* An address with no port is the host itself, and no other form is a host of
\* this machine.
hostOf(address, kind) ==
    IF address.form = kind \/ (kind = "host:port" /\ address.form = "bare") THEN address.host
    ELSE "unreadable"

isLoopback(host) == host \in {"localhost", "loopback"}

IsReacher(w) ==
    w.is = "call" /\ w.pkg \in DOMAIN reachers /\ w.fn \in DOMAIN reachers[w.pkg]

\* A call that could not be read is let go by a reason on its line, and one that
\* could not by nothing.
Excused(address, kind, reason) ==
    IF address.form = "computed" THEN reason >= minimumReasonWords
    ELSE isLoopback(hostOf(address, kind))

reachCall(w) ==
    LET r == reachers[w.pkg][w.fn]
    IN  \/ r.kind = "always"
        \/ r.addr > Len(w.args)
        \/ ~Excused(w.args[r.addr], r.kind, w.reason)

\* The strings to be judged: what is joined up to the first operand that is not a
\* literal, and each literal after it.
literalStrings(operands) ==
    LET computed == {i \in DOMAIN operands : operands[i] = <<"computed">>}
        joined == IF computed = {} THEN Len(operands) ELSE Min(computed) - 1
    IN  {FlattenSeq(SubSeq(operands, 1, joined))}
        \cup {operands[i] : i \in {i \in DOMAIN operands \ computed : i > joined}}

devicePath(s) ==
    Len(s) > 1 /\ s[1] = "/dev/" /\ Tail(s) \notin {<<d>> : d \in devicesThatAreNotDevices}

InFile(f) ==
    {w \in f.writings :
        \/ IsReacher(w) /\ reachCall(w)
        \/ w.is = "text" /\ \E s \in literalStrings(w.operands) : devicePath(s)}

-----------------------------------------------------------------------------
(* InTree *)

Walked(tree) == {f \in tree : ~f.skipped}

UnderMarkedDir(f) == f.dir \in TestDirs

InDefaultRun(tree) == {f \in Walked(tree) : ~Marked(f) /\ f.tests}

InTree(tree) ==
    {[file |-> f, what |-> MarkTag] : f \in {f \in Walked(tree) : Marked(f) /\ ~UnderMarkedDir(f)}}
    \cup UNION {{[file |-> f, what |-> w] : w \in InFile(f)} : f \in InDefaultRun(tree)}

ReadsTests(tree) == \A f \in InDefaultRun(tree) : f.parses

=============================================================================
