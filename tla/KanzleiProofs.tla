--------------------------- MODULE KanzleiProofs ---------------------------
(***************************************************************************)
(* For any number of connections and any grace: the process never believes   *)
(* it stopped unasked, and a clean exit leaves no accepted connection behind. *)
(* The parts of the type invariant are proved one by one, the Boolean        *)
(* variables apart from the others, as the provers take them.                *)
(***************************************************************************)
EXTENDS Kanzlei, TLAPS

USE DEF None, askVars, stopVars, httpVars, connVars, timeVars

\* Every step keeps the flags of the process and what is asked of it typed.
LEMMA FlagsStay == Flags /\ Next => Flags'
<1> SUFFICES ASSUME Flags, Next
             PROVE  Flags'
    OBVIOUS
<1> USE DEF Flags
<1>1. CASE ParseArgs \/ Listen \/ Announce \/ CatchSignals \/ StartServing
    BY <1>1, Zenon DEF ParseArgs, Listen, Announce, CatchSignals, StartServing, Goto, Return
<1>2. CASE ServingEnded \/ StopAsked \/ BeginShutdown \/ AwaitListeners
    BY <1>2, Zenon DEF ServingEnded, StopAsked, BeginShutdown, CloseListener, AwaitListeners,
        Goto, Return
<1>3. CASE Poll \/ PollAgain \/ GraceExpires \/ Join \/ Exit
    BY <1>3, Zenon DEF Poll, PollAgain, GraceExpires, Join, Exit, Goto, Return
<1>4. CASE Serve
    BY <1>4, Zenon DEF Serve, TrackListener, Accept, Register, AcceptFails, ServeReturns
<1>5. CASE Clients
    BY <1>5, Zenon DEF Clients, Connect, Request, Respond, Drop, HeaderTimesOut, Move
<1>6. CASE Stop \/ Tick \/ Exited
    BY <1>6, Zenon DEF Stop, Signal, RelaySignal, CloseStdin, StdinEnds, Tick, Exited, vars
<1>7. QED
    BY <1>1, <1>2, <1>3, <1>4, <1>5, <1>6, Zenon DEF Next, Run

\* Every step leaves run, the serving goroutine and the listener at places they know.
LEMMA PlacesStay == Places /\ Next => Places'
<1> SUFFICES ASSUME Places, Next
             PROVE  Places'
    OBVIOUS
<1> USE DEF Places, Goto, Return
<1>1. CASE ParseArgs \/ Listen \/ Announce
    BY <1>1 DEF ParseArgs, Listen, Announce
<1>2. CASE CatchSignals \/ StartServing \/ ServingEnded \/ StopAsked
    BY <1>2 DEF CatchSignals, StartServing, ServingEnded, StopAsked
<1>3. CASE BeginShutdown
    BY <1>3 DEF BeginShutdown, CloseListener
<1>4. CASE AwaitListeners \/ PollAgain \/ GraceExpires \/ Join \/ Exit
    BY <1>4 DEF AwaitListeners, PollAgain, GraceExpires, Join, Exit
<1>5. CASE Poll
    BY <1>5 DEF Poll
<1>6. CASE Serve
    BY <1>6 DEF Serve, TrackListener, Accept, Register, AcceptFails, ServeReturns, Report,
        CloseListener
<1>7. CASE Clients
    BY <1>7 DEF Clients, Connect, Request, Respond, Drop, HeaderTimesOut, Move
<1>8. CASE Stop \/ Tick \/ Exited
    BY <1>8 DEF Stop, Signal, RelaySignal, CloseStdin, StdinEnds, Tick, Exited, vars
<1>9. QED
    BY <1>1, <1>2, <1>3, <1>4, <1>5, <1>6, <1>7, <1>8 DEF Next, Run

\* A connection that moves to one of its stages stays of its type.
LEMMA MoveLinks ==
    ASSUME Links, NEW c \in Conns, NEW from,
           NEW to \in {"queued", "active", "idle", "closed"}, Move(c, from, to)
    PROVE  Links'
    BY DEF Links, Move

\* Every step keeps the connections and the times typed.
LEMMA LinksStay == Links /\ Next => Links'
<1> SUFFICES ASSUME Links, Next
             PROVE  Links'
    OBVIOUS
<1>1. CASE Run /\ ~BeginShutdown /\ ~Poll
    <2>1. UNCHANGED <<conn, age, elapsed, held>>
        BY <1>1, Zenon DEF Run, ParseArgs, Listen, Announce, CatchSignals, StartServing,
            ServingEnded, StopAsked, AwaitListeners, PollAgain, GraceExpires, Join, Exit
    <2>2. QED
        BY <2>1 DEF Links
<1>2. CASE BeginShutdown
    BY <1>2 DEF Links, BeginShutdown, CloseListener, RefuseQueued
<1>3. CASE Poll
    BY <1>3 DEF Links, Poll
<1>4. CASE TrackListener \/ AcceptFails
    <2>1. (RefuseQueued \/ UNCHANGED conn) /\ UNCHANGED <<age, elapsed, held>>
        BY <1>4 DEF TrackListener, AcceptFails, ServeReturns, CloseListener
    <2>2. QED
        BY <2>1 DEF Links, RefuseQueued
<1>5. ASSUME NEW c \in Conns, Accept(c) \/ Register(c)
      PROVE  Links'
    BY <1>5 DEF Links, Accept, Register
<1>6. ASSUME NEW c \in Conns,
             Connect(c) \/ Request(c) \/ Respond(c) \/ Drop(c) \/ HeaderTimesOut(c)
      PROVE  Links'
    <2>1. PICK from, to : to \in {"queued", "active", "idle", "closed"} /\ Move(c, from, to)
        BY <1>6, Zenon DEF Connect, Request, Respond, Drop, HeaderTimesOut
    <2>2. QED
        BY <2>1, MoveLinks, Zenon
<1>7. CASE Stop \/ Exited
    BY <1>7 DEF Links, Stop, Signal, RelaySignal, CloseStdin, StdinEnds, Exited, vars
<1>8. CASE Tick
    BY <1>8, TimesAssumption DEF Links, Tick
<1>9. QED
    BY <1>1, <1>2, <1>3, <1>4, <1>5, <1>6, <1>7, <1>8, Zenon DEF Next, Serve, Clients

\* Signals are caught exactly between NotifyContext and the return of run.
LEMMA CatchingStays ==
    ASSUME TypeOK, Next
    PROVE  (caught <=> pc \in Catching)'
<1>0. caught <=> pc \in Catching
    BY DEF TypeOK
<1> USE DEF Catching, Goto, Return
<1>1. CASE ParseArgs \/ Listen \/ Announce
    BY <1>0, <1>1 DEF ParseArgs, Listen, Announce
<1>2. CASE CatchSignals \/ StartServing \/ ServingEnded \/ StopAsked
    BY <1>0, <1>2 DEF CatchSignals, StartServing, ServingEnded, StopAsked
<1>3. CASE BeginShutdown
    BY <1>0, <1>3 DEF BeginShutdown
<1>4. CASE AwaitListeners \/ PollAgain \/ GraceExpires \/ Join \/ Exit
    BY <1>0, <1>4 DEF AwaitListeners, PollAgain, GraceExpires, Join, Exit
<1>5. CASE Poll
    BY <1>0, <1>5 DEF Poll
<1>6. CASE Serve
    BY <1>0, <1>6 DEF Serve, TrackListener, Accept, Register, AcceptFails, ServeReturns
<1>7. CASE Clients
    BY <1>0, <1>7 DEF Clients, Connect, Request, Respond, Drop, HeaderTimesOut, Move
<1>8. CASE Stop \/ Tick \/ Exited
    BY <1>0, <1>8 DEF Stop, Signal, RelaySignal, CloseStdin, StdinEnds, Tick, Exited, vars
<1>9. QED
    BY <1>1, <1>2, <1>3, <1>4, <1>5, <1>6, <1>7, <1>8 DEF Next, Run

\* A process begins of its type.
LEMMA InitTypes == Init => TypeOK
<1> SUFFICES ASSUME Init
             PROVE  TypeOK
    OBVIOUS
<1>1. Flags
    BY Zenon DEF Init, Flags
<1>2. Places
    BY DEF Init, Places
<1>3. Links
    BY TimesAssumption DEF Init, Links
<1>4. caught <=> pc \in Catching
    BY DEF Init, Catching
<1>5. QED
    BY <1>1, <1>2, <1>3, <1>4 DEF TypeOK

\* The type invariant is inductive.
LEMMA NextTypes == TypeOK /\ [Next]_vars => TypeOK'
<1>1. TypeOK /\ UNCHANGED vars => TypeOK'
    BY DEF TypeOK, Flags, Places, Links, vars
<1>2. TypeOK /\ Next => TypeOK'
    BY FlagsStay, PlacesStay, LinksStay, CatchingStays DEF TypeOK
<1>3. QED
    BY <1>1, <1>2, Zenon

\* The process keeps its types, and catches signals exactly while run is
\* between NotifyContext and its return.
THEOREM TypeCorrect == Spec => []TypeOK
    BY InitTypes, NextTypes, PTL DEF Spec

-----------------------------------------------------------------------------
(* The order of a stop: what the flag, the serving goroutine and run tell of  *)
(* one another, and what that leaves of the connections.                      *)

Early == {"parse", "listen", "announce", "install", "start"}

StopOrder ==
    /\ inShutdown => pc \in {"await", "poll", "pause", "join", "returning", "exited"}
    /\ pc \in {"await", "poll", "pause", "join"} => inShutdown
    /\ pc \in {"shutdown", "await", "poll", "pause", "join"} => ctxDone
    /\ ctxDone => Asked
    /\ served = None <=> srv # "returned"
    /\ served = "nil" => inShutdown
    /\ srv = "returned" => ln = "closed"
    /\ pc \in Early => srv = "none"
    /\ pc \in {"select", "shutdown", "await", "poll", "pause", "join"} => srv # "none"
    /\ Draining => srv # "accept"
    /\ verdict = "nil" => pc \in {"returning", "exited"} /\ srv = "returned" /\ Asked
    /\ NeverUnasked

\* A process begins with no stop under way.
LEMMA InitOrder == Init => StopOrder
    BY DEF Init, StopOrder, Early, Draining, NeverUnasked

\* Every step keeps the order of a stop.
LEMMA OrderStays ==
    ASSUME TypeOK, StopOrder, Next
    PROVE  StopOrder'
<1>0. Places
    BY DEF TypeOK
<1> USE DEF StopOrder, Early, Draining, Asked, NeverUnasked, Places
<1>1. CASE ParseArgs \/ Listen \/ Announce
    BY <1>0, <1>1 DEF ParseArgs, Listen, Announce, Goto, Return
<1>2. CASE CatchSignals \/ StartServing
    BY <1>0, <1>2 DEF CatchSignals, StartServing, Goto
<1>3. CASE ServingEnded \/ StopAsked
    BY <1>0, <1>3 DEF ServingEnded, StopAsked, Goto, Return
<1>4. CASE BeginShutdown
    BY <1>0, <1>4 DEF BeginShutdown, CloseListener, Goto
<1>5. CASE AwaitListeners \/ PollAgain \/ GraceExpires
    BY <1>0, <1>5 DEF AwaitListeners, PollAgain, GraceExpires, Goto, Return
<1>6. CASE Poll
    BY <1>0, <1>6 DEF Poll, Goto, Return
<1>7. CASE Join \/ Exit
    BY <1>0, <1>7 DEF Join, Exit, Goto, Return
<1>8. CASE TrackListener
    BY <1>0, <1>8 DEF TrackListener, ServeReturns, Report, CloseListener
<1>9. CASE AcceptFails
    BY <1>0, <1>9 DEF AcceptFails, Between, ServeReturns, Report, CloseListener
<1>10. ASSUME NEW c \in Conns, Accept(c) \/ Register(c)
       PROVE  StopOrder'
    BY <1>0, <1>10 DEF Accept, Register
<1>11. CASE Clients
    <2>1. UNCHANGED <<watches, pc, verdict, pending, stdin, ctxDone, srv, served, ln, inShutdown>>
        BY <1>11, Zenon DEF Clients, Connect, Request, Respond, Drop, HeaderTimesOut, Move
    <2>2. QED
        BY <2>1
<1>12. CASE Stop
    BY <1>0, <1>12 DEF Stop, Signal, RelaySignal, CloseStdin, StdinEnds, Running
<1>13. CASE Tick \/ Exited
    BY <1>13 DEF Tick, Exited, vars
<1>14. QED
    BY <1>1, <1>2, <1>3, <1>4, <1>5, <1>6, <1>7, <1>8, <1>9, <1>10, <1>11, <1>12, <1>13
        DEF Next, Run, Serve

\* What a stop leaves of the connections.
StopLinks ==
    /\ ln = "closed" => \A c \in Conns : conn[c] # "queued"
    /\ srv # "accept" => \A c \in Conns : conn[c] # "taken"
    /\ pc = "join" => \A c \in Conns : conn[c] \notin {"new", "active", "idle"}
    /\ CleanExit

\* A process begins with no connection.
LEMMA InitLinks == Init => StopLinks
    BY DEF Init, StopLinks, CleanExit

\* Every step keeps what a stop knows of the connections.
LEMMA LinksKeepStop ==
    ASSUME TypeOK, StopOrder, StopLinks, Next, StopOrder'
    PROVE  StopLinks'
<1>0. Places /\ Links
    BY DEF TypeOK
<1>1. CASE /\ UNCHANGED <<conn, ln, srv>>
           /\ pc' = "join" => pc = "join"
           /\ verdict' = "nil" => verdict = "nil"
    BY <1>1 DEF StopLinks, StopOrder, CleanExit
<1>2. CASE ParseArgs \/ Announce \/ CatchSignals \/ ServingEnded \/ StopAsked
           \/ AwaitListeners \/ PollAgain \/ GraceExpires \/ Exit
    BY <1>1, <1>2 DEF ParseArgs, Announce, CatchSignals, ServingEnded, StopAsked,
        AwaitListeners, PollAgain, GraceExpires, Exit, Goto, Return
<1>3. CASE Listen \/ StartServing
    BY <1>3 DEF Listen, StartServing, StopOrder, Early, StopLinks, CleanExit, Goto, Return
<1>4. CASE BeginShutdown
    BY <1>0, <1>4 DEF BeginShutdown, CloseListener, RefuseQueued, StopOrder, StopLinks, CleanExit,
        Goto, Links
<1>5. CASE Poll
    BY <1>0, <1>5 DEF Poll, Busy, StopOrder, StopLinks, CleanExit, Goto, Return, Links
<1>6. CASE Join
    <2>1. UNCHANGED <<conn, ln, srv>> /\ pc' # "join" /\ pc = "join"
        BY <1>6 DEF Join, Return
    <2>2. srv = "returned" /\ ln = "closed"
        BY <1>6 DEF Join, StopOrder
    <2>3. \A c \in Conns : conn[c] \in {"none", "closed", "refused"}
        BY <1>0, <2>1, <2>2 DEF StopLinks, Links
    <2>4. QED
        BY <2>1, <2>2, <2>3 DEF StopLinks, StopOrder, CleanExit
<1>7. CASE TrackListener \/ AcceptFails
    <2>1. CASE srv' = "accept"
        BY <1>7, <2>1 DEF TrackListener, AcceptFails, ServeReturns, StopLinks, StopOrder, CleanExit
    <2>2. CASE srv' # "accept"
        <3>1. /\ RefuseQueued /\ srv' = "returned" /\ UNCHANGED <<pc, verdict>> /\ srv # "returned"
              /\ \A c \in Conns : conn[c] # "taken"
            BY <1>7, <2>2 DEF TrackListener, AcceptFails, ServeReturns, CloseListener, Between,
                StopLinks
        <3>2. \A c \in Conns : conn'[c] \notin {"queued", "taken"}
            BY <3>1, <1>0 DEF RefuseQueued, Links
        <3>3. pc = "join" => \A c \in Conns : conn'[c] \notin {"new", "active", "idle"}
            BY <3>1 DEF RefuseQueued, StopLinks
        <3>4. verdict # "nil"
            BY <3>1 DEF StopOrder
        <3>5. QED
            BY <3>1, <3>2, <3>3, <3>4 DEF StopLinks, CleanExit
    <2>3. QED
        BY <2>1, <2>2
<1>8. ASSUME NEW c \in Conns, Accept(c) \/ Register(c)
      PROVE  StopLinks'
    BY <1>0, <1>8 DEF Accept, Register, Between, StopOrder, StopLinks, CleanExit, Draining, Links
<1>9. CASE Clients
    <2>1. PICK c \in Conns : Connect(c) \/ Request(c) \/ Respond(c) \/ Drop(c) \/ HeaderTimesOut(c)
        BY <1>9, Zenon DEF Clients
    <2>2. UNCHANGED <<pc, verdict, srv, ln>>
        BY <2>1, Zenon DEF Connect, Request, Respond, Drop, HeaderTimesOut, Move
    <2>3. CASE Connect(c)
        BY <1>0, <2>2, <2>3 DEF Connect, Move, StopOrder, StopLinks, CleanExit, Links
    <2>4. CASE Request(c) \/ Respond(c) \/ Drop(c) \/ HeaderTimesOut(c)
        <3>1. PICK to \in {"active", "idle", "closed"} :
                 conn[c] \in {"new", "active", "idle"} /\ conn' = [conn EXCEPT ![c] = to]
            BY <2>4 DEF Request, Respond, Drop, HeaderTimesOut, Move
        <3>2. QED
            BY <1>0, <2>2, <3>1 DEF StopOrder, StopLinks, CleanExit, Links
    <2>5. QED
        BY <2>1, <2>3, <2>4
<1>10. CASE Stop \/ Tick \/ Exited
    BY <1>1, <1>10 DEF Stop, Signal, RelaySignal, CloseStdin, StdinEnds, Tick, Exited, vars
<1>11. QED
    BY <1>2, <1>3, <1>4, <1>5, <1>6, <1>7, <1>8, <1>9, <1>10 DEF Next, Run, Serve

StopInv == TypeOK /\ StopOrder /\ StopLinks

\* The invariant of the stop holds throughout.
LEMMA StopInductive == Spec => []StopInv
<1>1. Init => StopInv
    BY InitTypes, InitOrder, InitLinks DEF StopInv
<1>2. StopInv /\ [Next]_vars => StopInv'
    <2>1. StopInv /\ Next => StopInv'
        BY NextTypes, OrderStays, LinksKeepStop DEF StopInv
    <2>2. StopInv /\ UNCHANGED vars => StopInv'
        BY NextTypes DEF StopInv, StopOrder, StopLinks, CleanExit, NeverUnasked, Asked, Draining,
            vars
    <2>3. QED
        BY <2>1, <2>2
<1>3. QED
    BY <1>1, <1>2, PTL DEF Spec

\* A clean exit was asked for and cuts no accepted connection, however many
\* there are and however long the grace is.
THEOREM CleanExitCutsNothing == Spec => []CleanExit
<1>1. StopInv => CleanExit
    BY DEF StopInv, StopLinks
<1>2. QED
    BY <1>1, StopInductive, PTL

\* run never reports that serving stopped without being asked to.
THEOREM NeverStopsUnasked == Spec => []NeverUnasked
<1>1. StopInv => NeverUnasked
    BY DEF StopInv, StopOrder
<1>2. QED
    BY <1>1, StopInductive, PTL

\* No connection joins the ones a shutdown has begun to wait for.
THEOREM DrainOnlyShrinks == Spec => NothingJoinsTheDrain
<1>1. StopInv /\ [Next]_vars => [Draining => \A c \in Conns : ~Joins(c)]_vars
    <2> SUFFICES ASSUME StopInv, Next, Draining, NEW c \in Conns,
                        conn[c] \in {"none", "queued", "taken"}
                 PROVE  conn'[c] \notin {"taken", "new", "active"}
        BY DEF Joins
    <2>1. srv # "accept" /\ conn[c] # "taken"
        BY DEF StopInv, StopOrder, StopLinks
    <2>2. Links
        BY DEF StopInv, TypeOK
    <2>3. CASE UNCHANGED conn \/ RefuseQueued
        BY <2>1, <2>2, <2>3 DEF RefuseQueued, Links
    <2>4. CASE Poll
        BY <2>1, <2>2, <2>4 DEF Poll, Links
    <2>5. CASE Run /\ ~Poll
        BY <2>3, <2>5, Zenon DEF Run, ParseArgs, Listen, Announce, CatchSignals, StartServing,
            ServingEnded, StopAsked, BeginShutdown, CloseListener, AwaitListeners, PollAgain,
            GraceExpires, Join, Exit
    <2>6. CASE Serve
        BY <2>1, <2>3, <2>6 DEF Serve, TrackListener, AcceptFails, ServeReturns, CloseListener,
            Accept, Register, Between
    <2>7. ASSUME NEW k \in Conns,
                 Connect(k) \/ Request(k) \/ Respond(k) \/ Drop(k) \/ HeaderTimesOut(k)
          PROVE  conn'[c] \notin {"taken", "new", "active"}
        <3>1. PICK to :
                 /\ conn' = [conn EXCEPT ![k] = to]
                 /\ \/ to = "queued"
                    \/ conn[k] \in {"new", "active", "idle"}
            BY <2>7 DEF Connect, Request, Respond, Drop, HeaderTimesOut, Move
        <3>2. QED
            BY <2>1, <2>2, <3>1 DEF Links
    <2>8. CASE Stop \/ Tick \/ Exited
        BY <2>3, <2>8 DEF Stop, Signal, RelaySignal, CloseStdin, StdinEnds, Tick, Exited, vars
    <2>9. QED
        BY <2>4, <2>5, <2>6, <2>7, <2>8 DEF Next, Clients
<1>2. QED
    BY <1>1, StopInductive, PTL DEF Spec, NothingJoinsTheDrain

-----------------------------------------------------------------------------
(* The time a stop takes.  A connection that says nothing is older than the  *)
(* grace has lasted, and the one poll that may lie between two units of time *)
(* has seen it or has seen a request.                                        *)

Ended == {"returning", "exited"}

Verdicts ==
    /\ verdict = None <=> pc \notin Ended
    /\ OnlyAReasonSpoilsAStop

Times ==
    /\ pc \notin {"await", "poll", "pause", "join"} \cup Ended => elapsed = 0
    /\ inShutdown /\ srv = "accept" => ln = "closed"
    /\ Stopping => \A c \in Conns : /\ conn[c] = "taken" => elapsed = 0
                                    /\ conn[c] = "new" => elapsed <= age[c]
    /\ pc = "pause" /\ held = {} => elapsed <= HeaderTimeout + (IF polled THEN 0 ELSE 1)

\* The listener opens before the address is announced, and closes for a reason.
Reachable ==
    /\ announced => pc \notin {"parse", "listen", "announce"}
    /\ pc \in {"announce", "install", "start", "select"} /\ served = None => ln = "open"
    /\ announced /\ pc = "returning" => served # None \/ ctxDone

\* What run returned keeps its reason.
LEMMA VerdictsStay ==
    ASSUME StopInv, Verdicts, Times, Next
    PROVE  Verdicts'
<1>0. Places /\ Links /\ StopOrder
    BY DEF StopInv, TypeOK
<1> USE DEF Verdicts, OnlyAReasonSpoilsAStop, Ended, Goto, Return
<1>1. CASE ParseArgs \/ Listen \/ Announce \/ CatchSignals \/ StartServing
    BY <1>1 DEF ParseArgs, Listen, Announce, CatchSignals, StartServing
<1>2. CASE ServingEnded \/ Join
    BY <1>0, <1>2 DEF ServingEnded, Join, Places
<1>3. CASE StopAsked \/ BeginShutdown \/ AwaitListeners \/ PollAgain \/ Exit
    BY <1>3 DEF StopAsked, BeginShutdown, AwaitListeners, PollAgain, Exit
<1>4. CASE Poll
    BY <1>4 DEF Poll
<1>5. CASE GraceExpires
    <2>1. pc = "pause" /\ elapsed >= Grace /\ held' = held
        BY <1>5 DEF GraceExpires
    <2>2. elapsed \in Nat
        BY <1>0, TimesAssumption DEF Links
    <2>3. held # {}
        BY <2>1, <2>2, TimesAssumption DEF Times
    <2>4. QED
        BY <1>5, <2>1, <2>3 DEF GraceExpires
<1>6. CASE TrackListener \/ AcceptFails
    <2>1. srv \in {"track", "accept"} /\ UNCHANGED <<pc, verdict, lnErr, held>>
        BY <1>6 DEF TrackListener, AcceptFails, Between, ServeReturns
    <2>2. served = None
        BY <1>0, <2>1 DEF StopOrder
    <2>3. QED
        BY <2>1, <2>2
<1>7. CASE (\E c \in Conns : Accept(c) \/ Register(c)) \/ Clients
    <2>1. UNCHANGED <<pc, verdict, served, lnErr, held>>
        BY <1>7, Zenon DEF Accept, Register, Clients, Connect, Request, Respond, Drop, HeaderTimesOut,
            Move
    <2>2. QED
        BY <2>1
<1>8. CASE Stop \/ Tick \/ Exited
    BY <1>8 DEF Stop, Signal, RelaySignal, CloseStdin, StdinEnds, Tick, Exited, vars, Running
<1> QED
    BY <1>1, <1>2, <1>3, <1>4, <1>5, <1>6, <1>7, <1>8 DEF Next, Run, Serve

\* A step that lets no time pass and brings nothing in keeps the times.
LEMMA StillKeepsTimes ==
    ASSUME Times, UNCHANGED <<elapsed, polled, held, age, inShutdown>>,
           UNCHANGED pc \/ pc' \in Ended,
           srv' = "accept" => (srv = "accept" /\ ln' = ln) \/ ~inShutdown,
           \A c \in Conns : /\ conn'[c] = "taken" => conn[c] = "taken"
                            /\ conn'[c] = "new" => conn[c] = "new"
    PROVE  Times'
    BY DEF Times, Stopping, Draining, Ended

\* Every step keeps what is known of the times.
LEMMA TimesStay ==
    ASSUME StopInv, Times, Next
    PROVE  Times'
<1>0. Places /\ Links /\ StopOrder /\ StopLinks
    BY DEF StopInv, TypeOK
<1>1. CASE ParseArgs \/ Listen \/ Announce \/ CatchSignals \/ StartServing \/ ServingEnded
           \/ StopAsked
    BY <1>0, <1>1 DEF ParseArgs, Listen, Announce, CatchSignals, StartServing, ServingEnded, StopAsked,
        Times, Stopping, Draining, Ended, Goto, Return, StopOrder, Early
<1>2. CASE BeginShutdown
    <2>1. /\ elapsed = 0 /\ elapsed' = 0 /\ age' = age /\ pc' = "await" /\ pc = "shutdown"
          /\ srv' = "accept" => ln' = "closed"
        BY <1>2 DEF BeginShutdown, CloseListener, Times, Ended, Goto
    <2>2. \A c \in Conns : age[c] \in Nat
        BY <1>0, TimesAssumption DEF Links
    <2>3. QED
        BY <2>1, <2>2 DEF Times, Stopping, Draining, Ended
<1>3. CASE AwaitListeners \/ PollAgain
    BY <1>3 DEF AwaitListeners, PollAgain, Times, Stopping, Draining, Ended, Goto
<1>4. CASE Poll
    <2>1. /\ pc = "poll" /\ UNCHANGED <<elapsed, age, srv, ln, inShutdown>>
          /\ polled' = TRUE /\ held' = {c \in Conns : conn[c] = "active"}
          /\ pc' \in {"pause", "join"} \cup Ended
          /\ pc' = "pause" => Busy # {}
        BY <1>4 DEF Poll, Goto, Return, Ended
    <2>2. \A c \in Conns : /\ conn'[c] = "taken" => conn[c] = "taken"
                           /\ conn'[c] = "new" => conn[c] = "new"
        BY <1>0, <1>4 DEF Poll, Links
    <2>3. \A c \in Conns : conn[c] = "new" => elapsed <= HeaderTimeout
        BY <1>0, <2>1, TimesAssumption DEF Times, Stopping, Draining, Links
    <2>4. pc' = "pause" /\ held' = {} => elapsed <= HeaderTimeout
        BY <2>1, <2>3 DEF Busy
    <2>5. HeaderTimeout + 0 = HeaderTimeout
        BY TimesAssumption
    <2>6. QED
        BY <2>1, <2>2, <2>4, <2>5 DEF Times, Stopping, Draining, Ended
<1>5. CASE GraceExpires \/ Join \/ Exit
    BY <1>5, StillKeepsTimes DEF GraceExpires, Join, Exit, Goto, Return, Ended
<1>6. CASE TrackListener \/ AcceptFails
    <2>1. /\ UNCHANGED <<elapsed, polled, held, age, inShutdown, pc>>
          /\ srv' = "accept" => ~inShutdown
          /\ RefuseQueued \/ UNCHANGED conn
        BY <1>6 DEF TrackListener, AcceptFails, ServeReturns, CloseListener
    <2>2. \A c \in Conns : /\ conn'[c] = "taken" => conn[c] = "taken"
                           /\ conn'[c] = "new" => conn[c] = "new"
        BY <1>0, <2>1 DEF RefuseQueued, Links
    <2>3. QED
        BY <2>1, <2>2, StillKeepsTimes
<1>7. ASSUME NEW c \in Conns, Accept(c)
      PROVE  Times'
    <2>1. ~Stopping /\ conn' = [conn EXCEPT ![c] = "taken"]
          /\ UNCHANGED <<elapsed, polled, held, age, inShutdown, pc, srv, ln>>
        BY <1>0, <1>7 DEF Accept, Between, Stopping, Draining, StopOrder, Times
    <2>2. QED
        BY <2>1 DEF Times, Stopping, Draining
<1>8. ASSUME NEW c \in Conns, Register(c)
      PROVE  Times'
    <2>1. conn[c] = "taken" /\ conn' = [conn EXCEPT ![c] = "new"]
          /\ UNCHANGED <<elapsed, polled, held, age, inShutdown, pc, srv, ln>>
        BY <1>8 DEF Register
    <2>2. Stopping => elapsed <= age[c]
        BY <1>0, <2>1, TimesAssumption DEF Times, Links
    <2>3. QED
        BY <1>0, <2>1, <2>2 DEF Times, Stopping, Draining, Links
<1>9. CASE Clients
    <2>1. PICK c \in Conns, to \in {"queued", "active", "idle", "closed"} :
             /\ conn' = [conn EXCEPT ![c] = to]
             /\ UNCHANGED <<elapsed, polled, held, age, inShutdown, pc, srv, ln>>
        BY <1>9 DEF Clients, Connect, Request, Respond, Drop, HeaderTimesOut, Move
    <2>2. \A d \in Conns : /\ conn'[d] = "taken" => conn[d] = "taken"
                           /\ conn'[d] = "new" => conn[d] = "new"
        BY <1>0, <2>1 DEF Links
    <2>3. QED
        BY <2>1, <2>2, StillKeepsTimes
<1>10. CASE Stop \/ Exited
    <2>1. /\ UNCHANGED <<elapsed, polled, held, age, inShutdown, srv, ln, conn>>
          /\ UNCHANGED pc \/ pc' \in Ended
        BY <1>10 DEF Stop, Signal, RelaySignal, CloseStdin, StdinEnds, Exited, vars, Ended
    <2>2. QED
        BY <2>1, StillKeepsTimes
<1>11. CASE Tick
    <2>1. /\ UNCHANGED <<pc, srv, ln, inShutdown, conn, held>> /\ polled' = FALSE
          /\ \A c \in Conns : conn[c] # "taken" /\ ~Overdue(c)
          /\ pc \in {"poll", "pause"} => polled
          /\ elapsed' = IF Stopping /\ elapsed < Grace THEN elapsed + 1 ELSE elapsed
          /\ \A c \in Conns : age'[c] =
                IF conn[c] = "new" /\ age[c] < HeaderTimeout THEN age[c] + 1 ELSE age[c]
        BY <1>11 DEF Tick
    <2>2. elapsed \in Nat /\ HeaderTimeout \in Nat /\ Grace \in Nat
          /\ \A c \in Conns : age[c] \in Nat /\ age[c] <= HeaderTimeout
        BY <1>0, TimesAssumption DEF Links
    <2>3. ~Stopping => elapsed' = elapsed
        BY <2>1
    <2>4. elapsed' <= elapsed + 1
        BY <2>1, <2>2
    <2>5. \A c \in Conns : Stopping /\ conn[c] = "new" => elapsed' <= age'[c]
        <3> SUFFICES ASSUME NEW c \in Conns, Stopping, conn[c] = "new"
                     PROVE  elapsed' <= age'[c]
            OBVIOUS
        <3>1. age[c] < HeaderTimeout /\ age'[c] = age[c] + 1 /\ elapsed <= age[c]
            BY <2>1, <2>2 DEF Overdue, Times
        <3>2. QED
            BY <2>2, <2>4, <3>1, <2>1
    <2>6. pc = "pause" /\ held = {} => elapsed' <= HeaderTimeout + 1
        BY <2>1, <2>2, <2>4 DEF Times
    <2>7. QED
        BY <2>1, <2>3, <2>5, <2>6 DEF Times, Stopping, Draining, Ended
<1> QED
    BY <1>1, <1>2, <1>3, <1>4, <1>5, <1>6, <1>7, <1>8, <1>9, <1>10, <1>11 DEF Next, Run, Serve

\* A stop that was asked for goes wrong only for a reason, whatever the number
\* of connections that say nothing: accepting failed, closing the listener
\* did, or the grace ran out on a request.
THEOREM OnlyAReasonSpoils == Spec => []OnlyAReasonSpoilsAStop
<1>1. Init => Verdicts /\ Times
    BY DEF Init, Verdicts, OnlyAReasonSpoilsAStop, Times, Stopping, Draining, Ended
<1>2. StopInv /\ Verdicts /\ Times /\ [Next]_vars => (Verdicts /\ Times)'
    <2>1. StopInv /\ Verdicts /\ Times /\ Next => (Verdicts /\ Times)'
        BY VerdictsStay, TimesStay
    <2>2. Verdicts /\ Times /\ UNCHANGED vars => (Verdicts /\ Times)'
        BY DEF Verdicts, OnlyAReasonSpoilsAStop, Times, Stopping, Draining, Ended, vars
    <2>3. QED
        BY <2>1, <2>2
<1>3. Verdicts => OnlyAReasonSpoilsAStop
    BY DEF Verdicts
<1> QED
    BY <1>1, <1>2, <1>3, StopInductive, PTL DEF Spec

\* What has been announced stays reachable, step by step.
LEMMA ReachableStays ==
    ASSUME StopInv, Reachable, Next
    PROVE  Reachable'
<1>0. StopOrder
    BY DEF StopInv
<1> USE DEF Reachable, Goto, Return
<1>1. CASE ParseArgs \/ Listen \/ Announce \/ CatchSignals \/ StartServing
    BY <1>0, <1>1 DEF ParseArgs, Listen, Announce, CatchSignals, StartServing, StopOrder, Early
<1>2. CASE ServingEnded \/ Join \/ StopAsked \/ AwaitListeners \/ PollAgain \/ GraceExpires \/ Exit
    BY <1>0, <1>2 DEF ServingEnded, Join, StopAsked, AwaitListeners, PollAgain, GraceExpires, Exit,
        StopOrder
<1>3. CASE BeginShutdown
    BY <1>3 DEF BeginShutdown, CloseListener
<1>4. CASE Poll
    BY <1>0, <1>4 DEF Poll, StopOrder
<1>5. CASE TrackListener \/ AcceptFails
    BY <1>5 DEF TrackListener, AcceptFails, ServeReturns, Report, CloseListener
<1>6. CASE (\E c \in Conns : Accept(c) \/ Register(c)) \/ Clients
    <2>1. UNCHANGED <<pc, announced, served, ln, ctxDone>>
        BY <1>6, Zenon DEF Accept, Register, Clients, Connect, Request, Respond, Drop, HeaderTimesOut,
            Move
    <2>2. QED
        BY <2>1
<1>7. CASE Stop \/ Tick \/ Exited
    BY <1>7 DEF Stop, Signal, RelaySignal, CloseStdin, StdinEnds, Tick, Exited, vars
<1> QED
    BY <1>1, <1>2, <1>3, <1>4, <1>5, <1>6, <1>7 DEF Next, Run, Serve

\* Whoever reads the printed address can connect to it until a stop is asked
\* for or serving ends on its own: no step between the line and the goroutine
\* that serves closes the listener.
THEOREM WhatIsAnnouncedIsReachable == Spec => []AnnouncedIsReachable
<1>1. Init => Reachable
    BY DEF Init, Reachable
<1>2. StopInv /\ Reachable /\ [Next]_vars => Reachable'
    <2>1. Reachable /\ UNCHANGED vars => Reachable'
        BY DEF Reachable, vars
    <2>2. QED
        BY <2>1, ReachableStays
<1>3. StopInv /\ Reachable => AnnouncedIsReachable
    <2> SUFFICES ASSUME StopInv, Reachable, announced, Running, ~ctxDone, served = None
                 PROVE  ln = "open"
        BY DEF AnnouncedIsReachable
    <2>1. pc \in {"install", "start", "select"}
        BY DEF StopInv, StopOrder, TypeOK, Places, Running, Reachable
    <2>2. QED
        BY <2>1 DEF Reachable
<1> QED
    BY <1>1, <1>2, <1>3, StopInductive, PTL DEF Spec

=============================================================================
