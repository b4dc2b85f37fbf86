------------------------------ MODULE Kanzlei ------------------------------
(***************************************************************************)
(* The life of one kanzlei process: run in cmd/kanzlei/main.go over the      *)
(* Server of internal/server.  Four goroutines of the process take part      *)
(* (run itself, the one that serves, the one NotifyContext starts and the    *)
(* one that reads standard input), and outside it whoever signals it, closes *)
(* its standard input or connects to it.                                     *)
(*                                                                         *)
(* What net/http does for Serve and Shutdown is modelled as far as this code *)
(* depends on it and is marked external: a connection is "queued" in the     *)
(* kernel, "taken" by Accept, then "new", "active" while a request is read   *)
(* or answered, "idle" between two, and "closed" or "refused" at the end.    *)
(* Time is counted in units that are longer than the polls of Shutdown.      *)
(***************************************************************************)
EXTENDS Naturals, FiniteSets

CONSTANTS
    Conns,             \* the connections clients may open
    Grace,             \* shutdownGrace
    HeaderTimeout      \* ReadHeaderTimeout

\* Ten seconds of grace against five for a header: a silent connection is gone
\* before the last poll.
ASSUME TimesAssumption ==
    /\ Grace \in Nat /\ HeaderTimeout \in Nat
    /\ Grace > HeaderTimeout + 1

None == "none"

VARIABLES
    invocation,        \* what the arguments ask for
    watches,           \* -stop-on-stdin-close
    pc,                \* where run is
    verdict,           \* what run returned, or "killed"
    announced,         \* the line with the address has been printed
    caught, pending,   \* NotifyContext is in force; it holds a signal
    stdin,             \* "open" or "closed"
    ctxDone,           \* the context run waits on
    srv, served,       \* the serving goroutine, and what it sent on served
    ln, lnErr,         \* the listener, and whether closing it failed
    inShutdown,        \* http.Server.inShutdown
    conn, age,         \* each connection, and how long it has been "new"
    elapsed,           \* time since the grace began
    polled, held       \* polled since time passed; the requests the last poll saw

askVars == <<invocation, watches>>
stopVars == <<caught, pending, stdin, ctxDone>>
httpVars == <<srv, served, ln, lnErr, inShutdown>>
connVars == <<conn, age>>
timeVars == <<elapsed, polled, held>>
vars == <<askVars, pc, verdict, announced, stopVars, httpVars, connVars, timeVars>>

Init ==
    /\ invocation \in {"help", "malformed", "version", "serve"}
    /\ watches \in BOOLEAN
    /\ pc = "parse" /\ verdict = None /\ announced = FALSE
    /\ caught = FALSE /\ pending = FALSE /\ stdin \in {"open", "closed"} /\ ctxDone = FALSE
    /\ srv = "none" /\ served = None
    /\ ln = "none" /\ lnErr = FALSE /\ inShutdown = FALSE
    /\ conn = [c \in Conns |-> "none"] /\ age = [c \in Conns |-> 0]
    /\ elapsed = 0 /\ polled = FALSE /\ held = {}

Goto(next) == pc' = next /\ UNCHANGED verdict

\* Plausible slip: stop is not deferred.
ReturnUnstopped(v) ==
    /\ pc' = "returning" /\ verdict' = v
    /\ UNCHANGED caught

\* run returns, and its deferred stop gives the signals back.
Return(v) ==
    /\ pc' = "returning" /\ verdict' = v
    /\ caught' = FALSE

-----------------------------------------------------------------------------
(* run, up to the point where it waits *)

ParseArgs ==
    /\ pc = "parse"
    /\ \/ invocation = "serve" /\ Goto("listen") /\ UNCHANGED caught
       \/ invocation = "help" /\ Return("help")
       \/ invocation = "malformed" /\ Return("usage")
       \/ invocation = "version" /\ \E v \in {"version", "write"} : Return(v)
    /\ UNCHANGED <<askVars, announced, pending, stdin, ctxDone, httpVars, connVars, timeVars>>

\* Plausible slip: New closes its listener with a defer, on the good path too.
ListenAndClose ==
    /\ pc = "listen"
    /\ \/ ln' = "closed" /\ Goto("announce") /\ UNCHANGED caught
       \/ UNCHANGED ln /\ Return("listen")
    /\ UNCHANGED <<askVars, announced, pending, stdin, ctxDone, srv, served, lnErr, inShutdown,
                   connVars, timeVars>>

Listen ==
    /\ pc = "listen"
    /\ \/ ln' = "open" /\ Goto("announce") /\ UNCHANGED caught
       \/ UNCHANGED ln /\ Return("listen")
    /\ UNCHANGED <<askVars, announced, pending, stdin, ctxDone, srv, served, lnErr, inShutdown,
                   connVars, timeVars>>

Announce ==
    /\ pc = "announce"
    /\ \/ announced' = TRUE /\ Goto("install") /\ UNCHANGED caught
       \/ UNCHANGED announced /\ Return("write")
    /\ UNCHANGED <<askVars, pending, stdin, ctxDone, httpVars, connVars, timeVars>>

CatchSignals ==
    /\ pc = "install"
    /\ caught' = TRUE
    /\ Goto("start")
    /\ UNCHANGED <<askVars, announced, pending, stdin, ctxDone, httpVars, connVars, timeVars>>

StartServing ==
    /\ pc = "start"
    /\ srv' = "track"
    /\ Goto("select")
    /\ UNCHANGED <<askVars, announced, stopVars, served, ln, lnErr, inShutdown, connVars, timeVars>>

\* The select takes either of two channels that are both ready.
ServingEnded ==
    /\ pc = "select" /\ served # None
    /\ Return(IF served = "nil" THEN "unasked" ELSE "serve")
    /\ UNCHANGED <<askVars, announced, pending, stdin, ctxDone, httpVars, connVars, timeVars>>

StopAsked ==
    /\ pc = "select" /\ ctxDone
    /\ Goto("shutdown")
    /\ UNCHANGED <<askVars, announced, stopVars, httpVars, connVars, timeVars>>

-----------------------------------------------------------------------------
(* http.Server.Shutdown, and what run makes of its answer *)

\* A listener that closes refuses what is still queued on it.
RefuseQueued ==
    conn' = [c \in Conns |-> IF conn[c] = "queued" THEN "refused" ELSE conn[c]]

CloseListener == ln' = "closed" /\ RefuseQueued /\ UNCHANGED age

\* Plausible slip: the listener is closed and the server never marked shut down.
BeginShutdownUnmarked ==
    /\ pc = "shutdown"
    /\ \/ srv = "accept" /\ CloseListener /\ \E failed \in BOOLEAN : lnErr' = failed
       \/ srv # "accept" /\ UNCHANGED <<ln, lnErr, connVars>>
    /\ Goto("await")
    /\ UNCHANGED <<askVars, announced, stopVars, srv, served, inShutdown, timeVars>>

\* Only a listener that Serve has registered is closed here.
BeginShutdown ==
    /\ pc = "shutdown"
    /\ inShutdown' = TRUE
    /\ \/ srv = "accept" /\ CloseListener /\ \E failed \in BOOLEAN : lnErr' = failed
       \/ srv # "accept" /\ UNCHANGED <<ln, lnErr, connVars>>
    /\ Goto("await")
    /\ UNCHANGED <<askVars, announced, stopVars, srv, served, timeVars>>

AwaitListeners ==
    /\ pc = "await" /\ srv # "accept"
    /\ Goto("poll")
    /\ UNCHANGED <<askVars, announced, stopVars, httpVars, connVars, timeVars>>

Busy == {c \in Conns : conn[c] \in {"new", "active"}}

\* Closes what is idle; done once nothing else is left.
Poll ==
    /\ pc = "poll"
    /\ conn' = [c \in Conns |-> IF conn[c] = "idle" THEN "closed" ELSE conn[c]]
    /\ polled' = TRUE
    /\ held' = {c \in Conns : conn[c] = "active"}
    /\ \/ Busy # {} /\ Goto("pause") /\ UNCHANGED caught
       \/ Busy = {} /\ ~lnErr /\ Goto("join") /\ UNCHANGED caught
       \/ Busy = {} /\ lnErr /\ Return("close")
    /\ UNCHANGED <<askVars, announced, pending, stdin, ctxDone, httpVars, age, elapsed>>

PollAgain ==
    /\ pc = "pause"
    /\ Goto("poll")
    /\ UNCHANGED <<askVars, announced, stopVars, httpVars, connVars, timeVars>>

\* Plausible slip: the error of Shutdown is dropped.
GraceExpiresUnnoticed ==
    /\ pc = "pause" /\ elapsed >= Grace
    /\ Goto("join")
    /\ UNCHANGED <<askVars, announced, stopVars, httpVars, connVars, timeVars>>

\* Plausible slip: the grace is never given a deadline.
GraceUnbounded ==
    /\ pc = "pause" /\ elapsed > Grace
    /\ Return("grace")
    /\ UNCHANGED <<askVars, announced, pending, stdin, ctxDone, httpVars, connVars, timeVars>>

\* Plausible slip: the grace hangs off the context that has just ended.
GraceOfEndedContext ==
    /\ pc = "pause" /\ ctxDone
    /\ Return("grace")
    /\ UNCHANGED <<askVars, announced, pending, stdin, ctxDone, httpVars, connVars, timeVars>>

GraceExpires ==
    /\ pc = "pause" /\ elapsed >= Grace
    /\ Return("grace")
    /\ UNCHANGED <<askVars, announced, pending, stdin, ctxDone, httpVars, connVars, timeVars>>

Join ==
    /\ pc = "join" /\ served # None
    /\ Return(IF served = "nil" THEN "nil" ELSE "serve")
    /\ UNCHANGED <<askVars, announced, pending, stdin, ctxDone, httpVars, connVars, timeVars>>

\* main exits with what run returned, and every goroutine ends with it.
Exit ==
    /\ pc = "returning"
    /\ Goto("exited")
    /\ UNCHANGED <<askVars, announced, stopVars, httpVars, connVars, timeVars>>

-----------------------------------------------------------------------------
(* The serving goroutine *)

\* Server.Serve turns the sentinel of a server that was shut down into nil.
Report(e) == IF e = "ErrServerClosed" THEN "nil" ELSE e

Running == pc # "exited"

\* Every return of http.Server.Serve closes the listener.
ServeReturns(e) ==
    /\ srv' = "returned"
    /\ served' = Report(e)
    /\ CloseListener
    /\ UNCHANGED <<askVars, pc, verdict, announced, stopVars, lnErr, inShutdown, timeVars>>

TrackListener ==
    /\ Running /\ srv = "track"
    /\ \/ inShutdown /\ ServeReturns("ErrServerClosed")
       \/ /\ ~inShutdown
          /\ srv' = "accept"
          /\ UNCHANGED <<askVars, pc, verdict, announced, stopVars, served, ln, lnErr, inShutdown,
                         connVars, timeVars>>

Between == srv = "accept" /\ \A c \in Conns : conn[c] # "taken"

Accept(c) ==
    /\ Running /\ Between /\ ln = "open" /\ conn[c] = "queued"
    /\ conn' = [conn EXCEPT ![c] = "taken"]
    /\ UNCHANGED <<askVars, pc, verdict, announced, stopVars, httpVars, age, timeVars>>

\* The accepted connection is registered, and given its goroutine.
Register(c) ==
    /\ Running /\ srv = "accept" /\ conn[c] = "taken"
    /\ conn' = [conn EXCEPT ![c] = "new"]
    /\ UNCHANGED <<askVars, pc, verdict, announced, stopVars, httpVars, age, timeVars>>

\* Accept fails because the listener was closed, or for a reason of its own; an
\* error met while shutting down is taken for the closing.
AcceptFails ==
    /\ Running /\ Between
    /\ \/ inShutdown /\ ServeReturns("ErrServerClosed")
       \/ ~inShutdown /\ ServeReturns("error")

-----------------------------------------------------------------------------
(* Clients and connections *)

Move(c, from, to) ==
    /\ Running /\ conn[c] \in from
    /\ conn' = [conn EXCEPT ![c] = to]
    /\ UNCHANGED <<askVars, pc, verdict, announced, stopVars, httpVars, age, timeVars>>

Connect(c) == ln = "open" /\ Move(c, {"none"}, "queued")

Request(c) == Move(c, {"new", "idle"}, "active")

\* The answer has been written.  Keep-alives are off in a shutdown.
Respond(c) == Move(c, {"active"}, IF inShutdown THEN "closed" ELSE "idle")

\* The client leaves, or a read, write or idle timeout ends the connection.
Drop(c) == Move(c, {"new", "active", "idle"}, "closed")

\* The ReadHeaderTimeout of the server.  Shutdown also takes a connection for idle
\* that has said nothing for five seconds; it is left out, so that a silent client
\* can hold a drain here for longer than it may.
Overdue(c) == conn[c] = "new" /\ age[c] >= HeaderTimeout

HeaderTimesOut(c) == Overdue(c) /\ Move(c, {"new"}, "closed")

-----------------------------------------------------------------------------
(* What asks for a stop, and what carries it to the context *)

\* Without NotifyContext a signal ends the process where it stands.
Signal ==
    /\ Running
    /\ \/ caught /\ pending' = TRUE /\ UNCHANGED <<pc, verdict>>
       \/ ~caught /\ pc' = "exited" /\ verdict' = "killed" /\ UNCHANGED pending
    /\ UNCHANGED <<askVars, announced, caught, stdin, ctxDone, httpVars, connVars, timeVars>>

RelaySignal ==
    /\ Running /\ pending /\ ~ctxDone
    /\ ctxDone' = TRUE
    /\ UNCHANGED <<askVars, pc, verdict, announced, caught, pending, stdin, httpVars, connVars,
                   timeVars>>

CloseStdin ==
    /\ Running /\ stdin = "open"
    /\ stdin' = "closed"
    /\ UNCHANGED <<askVars, pc, verdict, announced, caught, pending, ctxDone, httpVars, connVars,
                   timeVars>>

\* The goroutine of stopWhenClosed, which runs once the signals are caught.
StdinEnds ==
    /\ Running /\ watches /\ stdin = "closed" /\ ~ctxDone
    /\ pc \in {"start", "select"}
    /\ ctxDone' = TRUE
    /\ UNCHANGED <<askVars, pc, verdict, announced, caught, pending, stdin, httpVars, connVars,
                   timeVars>>

Draining == pc \in {"poll", "pause", "join"}
Stopping == pc = "await" \/ Draining

\* What the process has only to do (close its listener, register what it
\* accepted, time a header out, poll) it does before more time has passed.
Tick ==
    /\ Running /\ pc # "shutdown"
    /\ \A c \in Conns : conn[c] # "taken" /\ ~Overdue(c)
    /\ pc \in {"poll", "pause"} => polled
    /\ (Stopping /\ elapsed < Grace) \/ \E c \in Conns : conn[c] = "new" /\ age[c] < HeaderTimeout
    /\ elapsed' = IF Stopping /\ elapsed < Grace THEN elapsed + 1 ELSE elapsed
    /\ age' = [c \in Conns |->
                 IF conn[c] = "new" /\ age[c] < HeaderTimeout THEN age[c] + 1 ELSE age[c]]
    /\ polled' = FALSE
    /\ UNCHANGED <<askVars, pc, verdict, announced, stopVars, httpVars, conn, held>>

Exited == pc = "exited" /\ UNCHANGED vars

-----------------------------------------------------------------------------

Run ==
    \/ ParseArgs \/ Listen \/ Announce \/ CatchSignals \/ StartServing
    \/ ServingEnded \/ StopAsked
    \/ BeginShutdown \/ AwaitListeners \/ Poll \/ PollAgain \/ GraceExpires \/ Join \/ Exit

Serve == TrackListener \/ AcceptFails \/ \E c \in Conns : Accept(c) \/ Register(c)

Clients ==
    \E c \in Conns : Connect(c) \/ Request(c) \/ Respond(c) \/ Drop(c) \/ HeaderTimesOut(c)

Stop == Signal \/ RelaySignal \/ CloseStdin \/ StdinEnds

Next == Run \/ Serve \/ Clients \/ Stop \/ Tick \/ Exited

Spec == Init /\ [][Next]_vars

\* Goroutines that can run are run, time passes, and a select that keeps finding
\* the grace over takes that case; no client and no supervisor owes anything.
Fairness ==
    /\ WF_vars(Run) /\ SF_vars(GraceExpires)
    /\ WF_vars(TrackListener) /\ WF_vars(inShutdown /\ AcceptFails)
    /\ \A c \in Conns : WF_vars(Register(c)) /\ WF_vars(HeaderTimesOut(c))
    /\ WF_vars(RelaySignal) /\ WF_vars(StdinEnds) /\ WF_vars(Tick)

FairSpec == Spec /\ Fairness

-----------------------------------------------------------------------------

Flags ==
    /\ watches \in BOOLEAN /\ announced \in BOOLEAN /\ caught \in BOOLEAN
    /\ pending \in BOOLEAN /\ ctxDone \in BOOLEAN /\ lnErr \in BOOLEAN
    /\ inShutdown \in BOOLEAN /\ polled \in BOOLEAN

Places ==
    /\ invocation \in {"help", "malformed", "version", "serve"}
    /\ pc \in {"parse", "listen", "announce", "install", "start", "select", "shutdown", "await",
               "poll", "pause", "join", "returning", "exited"}
    /\ verdict \in {None, "nil", "help", "version", "usage", "write", "listen", "unasked",
                    "serve", "grace", "close", "killed"}
    /\ stdin \in {"open", "closed"}
    /\ srv \in {"none", "track", "accept", "returned"} /\ served \in {None, "nil", "error"}
    /\ ln \in {"none", "open", "closed"}

Links ==
    /\ conn \in [Conns -> {"none", "queued", "taken", "new", "active", "idle", "closed",
                           "refused"}]
    /\ age \in [Conns -> 0..HeaderTimeout]
    /\ elapsed \in 0..Grace /\ held \subseteq Conns

Catching == {"start", "select", "shutdown", "await", "poll", "pause", "join"}

\* The types; signals are caught from NotifyContext until run returns
\* (main.go:72-73).
TypeOK ==
    /\ Flags /\ Places /\ Links
    /\ caught <=> pc \in Catching

Asked == pending \/ (watches /\ stdin = "closed")

\* A clean exit is one somebody asked for, and it leaves nothing behind: the
\* serving goroutine has returned, the listener is closed, and no connection
\* that was accepted is cut (main.go:82-98).
CleanExit ==
    verdict = "nil" =>
        /\ Asked
        /\ srv = "returned" /\ ln = "closed"
        /\ \A c \in Conns : conn[c] \in {"none", "closed", "refused"}

\* Serve never reports that it was asked to stop when nobody has
\* (main.go:83-88, server.go:58-69).
NeverUnasked == verdict # "unasked"

\* A stop that was asked for is an error only for a reason: accepting failed
\* (main.go:89, 98), closing the listener did, or the grace ran out on a
\* request.  A connection that merely says nothing never takes the whole of it
\* (main.go:25-30, server.go:44-50).
OnlyAReasonSpoilsAStop ==
    /\ verdict = "serve" => served = "error"
    /\ verdict = "close" => lnErr
    /\ verdict = "grace" => held # {}

\* Whoever reads the printed address can connect to it until the process is
\* asked to stop or stops accepting on its own (main.go:65-70).
AnnouncedIsReachable ==
    announced /\ Running /\ ~ctxDone /\ served = None => ln = "open"

\* Once Shutdown polls, no connection joins the ones it waits for
\* (server.go:71-73).
Joins(c) == conn[c] \in {"none", "queued", "taken"} /\ conn'[c] \in {"taken", "new", "active"}

NothingJoinsTheDrain == [][Draining => \A c \in Conns : ~Joins(c)]_vars

\* A stop that was asked for ends the process, whatever its clients do
\* (main.go:25-30, 90-98).
StopEnds ==
    /\ pending ~> ~Running
    /\ (invocation = "serve" /\ watches /\ stdin = "closed") ~> ~Running

-----------------------------------------------------------------------------

\* README.md:54-57: the address is printed on startup; "An interrupt or a
\* termination signal stops the process, and requests already in flight are
\* given ten seconds to finish."  The line is printed before the signals are
\* caught, so a signal can end the process under a client that connected.
SignalsGiveTheGrace ==
    announced /\ verdict = "killed" =>
        \A c \in Conns : conn[c] \notin {"queued", "taken", "new", "active"}

=============================================================================
