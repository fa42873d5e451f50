------------------------------- MODULE Console -------------------------------
(***************************************************************************)
(* The console of one instance, from the process to the browser:           *)
(*                                                                         *)
(*   process -> SessionHost (sessiond/internal/host) -> daemon             *)
(*   (supervisor.instance) -> handleConsole -> ConsoleOutput.vue           *)
(*                                                                         *)
(* The host numbers the lines of the process and keeps the last ones; the  *)
(* daemon numbers what it reads anew, adds lines of its own and keeps the   *)
(* last ones again; a terminal asks for what follows the last number it    *)
(* has seen.  Each stage has a bounded queue per reader and drops a reader  *)
(* that is too slow.                                                        *)
(*                                                                         *)
(* A line is its number at the host (0 for the daemon's own lines).  The   *)
(* three buffers of 256 have one constant.  The socket between two stages   *)
(* is merged with the queue that feeds it.                                 *)
(***************************************************************************)
EXTENDS Naturals, Sequences, SequencesExt

CONSTANTS
    Terminals,     \* ConsoleOutput components
    LineBuffer,    \* host.lines, host.subs[id] and instance.subscribers[id]
    ConsoleLines,  \* process.console_buffer_lines
    MaxLines,      \* bound on the lines one process prints
    MaxSessions,   \* bound on the processes
    MaxAttaches,   \* bound on the daemon's attachments
    MaxBoots,      \* bound on restarts of the daemon
    MaxDrops       \* bound on lost connections, of the daemon and of the terminals

ASSUME ConsoleConstants ==
    /\ LineBuffer \in Nat \ {0} /\ ConsoleLines \in Nat \ {0}
    /\ MaxLines \in Nat /\ MaxSessions \in Nat /\ MaxAttaches \in Nat
    /\ MaxBoots \in Nat /\ MaxDrops \in Nat

VARIABLES
    host,      \* SessionHost: [session, printed, exited, open (the listener), stuck (h.mu is held for ever)]
    feed,      \* the daemon's subscription: [queue, live (in h.subs), closed (the channel)]
    link,      \* startLocked: "none", "created" (not attached yet), "on"
    dconsole,  \* instance: [boot, sequence, session, ring, attach]
    farewells, \* "process exited" lines waitSession still has to add
    watch,     \* instance.subscribers: [queue, live, closed], per terminal
    term,      \* ConsoleOutput: [page (is open), on, last, session, shown], per terminal
    conDrops

conVars == <<host, feed, link, dconsole, farewells, watch, term, conDrops>>

ExitFrame == 0

NoFeed == [queue |-> <<>>, live |-> FALSE, closed |-> FALSE]

\* Mutant: a reader that is dropped is not told.
OfferForgets(sub, x) ==
    IF sub.live /\ Len(sub.queue) < LineBuffer THEN [sub EXCEPT !.queue = Append(@, x)]
    ELSE [sub EXCEPT !.live = FALSE]

\* select { case subscriber <- x: default: delete; close }
Offer(sub, x) ==
    CASE ~sub.live -> sub
      [] sub.live /\ Len(sub.queue) < LineBuffer -> [sub EXCEPT !.queue = Append(@, x)]
      [] OTHER -> [sub EXCEPT !.live = FALSE, !.closed = TRUE]

\* ring.add, and the cut of host.lines.
Keep(ring, n) == SubSeq(ring, IF Len(ring) > n THEN Len(ring) - n + 1 ELSE 1, Len(ring))

ConInit ==
    /\ host = [session |-> 0, printed |-> 0, exited |-> TRUE, open |-> FALSE, stuck |-> FALSE]
    /\ feed = NoFeed
    /\ link = "none"
    /\ dconsole = [boot |-> 0, sequence |-> 0, session |-> 0, ring |-> <<>>, attach |-> 0]
    /\ farewells = 0
    /\ watch = [t \in Terminals |-> NoFeed]
    /\ \E pages \in SUBSET Terminals :
         term = [t \in Terminals |-> [page |-> t \in pages, on |-> FALSE, last |-> 0, session |-> 0,
                                       shown |-> <<>>]]
    /\ conDrops = 0

-----------------------------------------------------------------------------
(* The host.                                                               *)

\* scan and publishBytes; the readers of the pipes may still publish after Finish.
Prints ==
    /\ host.session > 0 /\ ~host.stuck
    /\ host.printed < MaxLines
    /\ host' = [host EXCEPT !.printed = @ + 1]
    /\ feed' = Offer(feed, host'.printed)
    /\ UNCHANGED <<link, dconsole, farewells, watch, term, conDrops>>

\* Finish: the exit frame is lost when the queue is full, the channel is closed all the same.
Finishes ==
    /\ ~host.exited
    /\ host' = [host EXCEPT !.exited = TRUE]
    /\ feed' = IF feed.live THEN [Offer(feed, ExitFrame) EXCEPT !.live = FALSE, !.closed = TRUE]
               ELSE feed
    /\ UNCHANGED <<link, dconsole, farewells, watch, term, conDrops>>

\* startHost closes the listener after Finish; until then a connection is accepted.
ListenerCloses ==
    /\ host.exited /\ host.open
    /\ host' = [host EXCEPT !.open = FALSE]
    /\ UNCHANGED <<feed, link, dconsole, farewells, watch, term, conDrops>>

\* subscribe with After = 0, holding h.mu: what the ring holds, then the exit frame.  A
\* full ring leaves no room for the exit frame, and the send blocks before anyone reads.
Replay ==
    LET lines == [i \in 1..host.printed |-> i]
        kept  == Keep(lines, LineBuffer)
        fits  == Len(kept) < LineBuffer
    IN  IF host.exited /\ ~fits
        THEN /\ feed' = [queue |-> <<>>, live |-> FALSE, closed |-> FALSE]
             /\ host' = [host EXCEPT !.stuck = TRUE]
        ELSE /\ feed' = [queue  |-> kept \o (IF host.exited THEN <<ExitFrame>> ELSE <<>>),
                         live   |-> TRUE,
                         closed |-> FALSE]
             /\ host' = host

-----------------------------------------------------------------------------
(* The daemon.                                                             *)

ConsoleEntry(session, line, n) ==
    [sequence |-> n, session |-> session, line |-> line, attach |-> dconsole.attach,
     reset |-> FALSE]

\* publishConsoleLocked.
Published(entry) ==
    /\ dconsole' = [dconsole EXCEPT !.sequence = entry.sequence, !.session = entry.session,
                                    !.ring = Keep(Append(@, entry), ConsoleLines)]
    /\ watch' = [t \in Terminals |-> Offer(watch[t], entry)]

AddConsole(line) == Published(ConsoleEntry(dconsole.session, line, dconsole.sequence + 1))

\* ensureSession without a session: startSession, as far as the reply of sessiond.
CreatesSession ==
    /\ link = "none" /\ host.exited /\ ~host.open
    /\ host.session < MaxSessions
    /\ host' = [session |-> host.session + 1, printed |-> 0, exited |-> FALSE,
                open |-> TRUE, stuck |-> FALSE]
    /\ link' = "created"
    /\ UNCHANGED <<feed, dconsole, farewells, watch, term, conDrops>>

\* What an attachment adds: a new session clears the console first (resetConsole), an old
\* one (ensureSession, RecoverSessions) does not; then "process started", or "reattached".
Opening(attach, new) ==
    LET n       == dconsole.sequence + 1
        started == [ConsoleEntry(host.session, 0, n) EXCEPT !.attach = attach]
    IN  IF new THEN <<[started EXCEPT !.reset = TRUE], [started EXCEPT !.sequence = n + 1]>>
        ELSE <<started>>

\* dialSession, hello, and the host's subscribe.
Attaches ==
    /\ link \in {"none", "created"}
    /\ host.open /\ ~host.stuck
    /\ dconsole.attach < MaxAttaches
    /\ Replay
    /\ link' = "on"
    /\ LET attach == dconsole.attach + 1
           new    == Opening(attach, link = "created")
           old    == IF link = "created" THEN <<>> ELSE dconsole.ring
       IN  /\ dconsole' = [dconsole EXCEPT !.sequence = Last(new).sequence, !.attach = attach,
                                           !.session = host.session,
                                           !.ring = Keep(old \o new, ConsoleLines)]
           /\ watch' = [t \in Terminals |->
                           Offer(IF link = "created" THEN Offer(watch[t], Head(new)) ELSE watch[t],
                                 Last(new))]
    /\ UNCHANGED <<farewells, term, conDrops>>

\* The dial after session.start fails: the session goes on without the daemon.
AttachFails ==
    /\ link = "created"
    /\ conDrops < MaxDrops
    /\ conDrops' = conDrops + 1
    /\ link' = "none"
    /\ UNCHANGED <<host, feed, dconsole, farewells, watch, term>>

\* consumeSession: a line.
ConsumesLine ==
    /\ link = "on"
    /\ feed.queue # <<>>
    /\ Head(feed.queue) # ExitFrame
    /\ feed' = [feed EXCEPT !.queue = Tail(@)]
    /\ AddConsole(Head(feed.queue))
    /\ UNCHANGED <<host, link, farewells, term, conDrops>>

\* The exit frame, or the end of the connection; markExit closes it and waitSession wakes up.
ConsumesEnd ==
    /\ link = "on"
    /\ \/ feed.queue # <<>> /\ Head(feed.queue) = ExitFrame
       \/ feed.queue = <<>> /\ feed.closed
    /\ feed' = NoFeed
    /\ link' = "none"
    /\ farewells' = farewells + 1
    /\ UNCHANGED <<host, dconsole, watch, term, conDrops>>

LosesSession ==
    /\ link = "on"
    /\ conDrops < MaxDrops
    /\ conDrops' = conDrops + 1
    /\ feed' = NoFeed
    /\ link' = "none"
    /\ farewells' = farewells + 1
    /\ UNCHANGED <<host, dconsole, watch, term>>

\* waitSession: "process exited", added after i.mu was released.
SaysFarewell ==
    /\ farewells > 0
    /\ farewells' = farewells - 1
    /\ AddConsole(0)
    /\ UNCHANGED <<host, feed, link, term, conDrops>>

DaemonRestarts ==
    /\ dconsole.boot < MaxBoots
    /\ dconsole' = [boot |-> dconsole.boot + 1, sequence |-> 0, session |-> 0, ring |-> <<>>,
                    attach |-> dconsole.attach]
    /\ feed' = NoFeed
    /\ link' = "none"
    /\ farewells' = 0
    /\ watch' = [t \in Terminals |-> NoFeed]
    /\ term' = [t \in Terminals |-> [term[t] EXCEPT !.on = FALSE]]
    /\ UNCHANGED <<host, conDrops>>

-----------------------------------------------------------------------------
(* A terminal.                                                             *)

\* The entries that are wanted, in their order: ring.after.
Picked(entries, wanted) ==
    LET picked[i \in 0 .. Len(entries)] ==
            IF i = 0 THEN <<>>
            ELSE IF entries[i] \in wanted THEN Append(picked[i - 1], entries[i]) ELSE picked[i - 1]
    IN  picked[Len(entries)]

\* Subscribe: the history after the number, under the lock that registers the channel.
History(after) ==
    LET from == IF after > dconsole.sequence THEN 0 ELSE after
    IN  Picked(dconsole.ring, {e \in ToSet(dconsole.ring) : e.sequence > from})

\* Mutant: the snapshot never says that lines are missing.
NeverTruncated(history, after) == FALSE

\* buildConsoleSnapshot gets the number the terminal sent.
Truncated(history, after) == after > 0 /\ history[1].sequence > after + 1

Lines(entries) == Picked(entries, {e \in ToSet(entries) : ~e.reset})

Larger(a, b) == IF a > b THEN a ELSE b

\* connect, handleConsole and applySnapshot.
Connects(t) ==
    /\ term[t].page /\ ~term[t].on
    /\ watch' = [watch EXCEPT ![t] = [NoFeed EXCEPT !.live = TRUE]]
    /\ LET history == History(term[t].last)
           replace == \/ term[t].session = 0
                      \/ Last(history).session # term[t].session
                      \/ Truncated(history, term[t].last)
                      \/ term[t].last = 0
       IN  term' = [term EXCEPT ![t] =
                IF history = <<>> THEN [@ EXCEPT !.on = TRUE]
                ELSE [page    |-> TRUE,
                      on      |-> TRUE,
                      last    |-> Larger(IF replace THEN 0 ELSE @.last, Last(history).sequence),
                      session |-> Last(history).session,
                      shown   |-> (IF replace THEN <<>> ELSE @.shown) \o Lines(history)]]
    /\ UNCHANGED <<host, feed, link, dconsole, farewells, conDrops>>

\* appendLine: a number it has seen is skipped, another session clears the screen.
AppendsLine(t, e) ==
    LET x    == term[t]
        kept == IF e.session # x.session /\ x.session # 0 THEN <<>> ELSE x.shown
    IN  term' = [term EXCEPT ![t] =
            IF e.sequence <= x.last THEN x
            ELSE [x EXCEPT !.last = e.sequence, !.session = e.session, !.shown = Append(kept, e)]]

\* resetOutput.
ResetsOutput(t, e) ==
    term' = [term EXCEPT ![t].last = IF e.session # term[t].session THEN e.sequence
                                     ELSE Larger(@, e.sequence),
                         ![t].session = e.session,
                         ![t].shown = <<>>]

Receives(t) ==
    /\ term[t].on
    /\ watch[t].queue # <<>>
    /\ LET e == Head(watch[t].queue)
       IN  IF e.reset THEN ResetsOutput(t, e) ELSE AppendsLine(t, e)
    /\ watch' = [watch EXCEPT ![t].queue = Tail(@)]
    /\ UNCHANGED <<host, feed, link, dconsole, farewells, conDrops>>

\* The channel was closed under a slow terminal.
IsClosed(t) ==
    /\ term[t].on
    /\ watch[t].queue = <<>> /\ watch[t].closed
    /\ watch' = [watch EXCEPT ![t] = NoFeed]
    /\ term' = [term EXCEPT ![t].on = FALSE]
    /\ UNCHANGED <<host, feed, link, dconsole, farewells, conDrops>>

Drops(t) ==
    /\ term[t].on
    /\ conDrops < MaxDrops
    /\ conDrops' = conDrops + 1
    /\ watch' = [watch EXCEPT ![t] = NoFeed]
    /\ term' = [term EXCEPT ![t].on = FALSE]
    /\ UNCHANGED <<host, feed, link, dconsole, farewells>>

-----------------------------------------------------------------------------
\* What goes on by itself: goroutines that have work, and the terminal's reconnection.
ConSteps ==
    \/ ListenerCloses \/ ConsumesLine \/ ConsumesEnd \/ SaysFarewell
    \/ \E t \in Terminals : Connects(t) \/ Receives(t) \/ IsClosed(t)

ConNext ==
    \/ ConSteps
    \/ Prints \/ Finishes
    \/ CreatesSession \/ Attaches \/ AttachFails \/ LosesSession \/ DaemonRestarts
    \/ \E t \in Terminals : Drops(t)

ConSpec == ConInit /\ [][ConNext]_conVars

-----------------------------------------------------------------------------
(* Properties.                                                             *)

\* Within one attachment the daemon's console holds the lines of the process in order and
\* without a hole, the replayed ones and the live ones, however they interleave with its own.
StreamInOrder ==
    LET ring == dconsole.ring
    IN  \A i, j \in DOMAIN ring :
          /\ i < j /\ ring[i].attach = ring[j].attach /\ ring[i].line > 0 /\ ring[j].line > 0
          /\ \A k \in (i + 1)..(j - 1) : ring[k].line = 0
          => ring[j].line = ring[i].line + 1

\* A terminal shows the daemon's numbers without a hole and without a repetition: across
\* lost connections, queues that overflow and sessions that end, either the screen was
\* cleared or the next line is the next number.  (Once the daemon has restarted it numbers
\* from 1 again, and a terminal that kept its number repeats lines or skips them.)
TerminalIsContiguous ==
    dconsole.boot = 0 =>
        \A t \in Terminals : \A i \in 1..(Len(term[t].shown) - 1) :
            term[t].shown[i + 1].sequence = term[t].shown[i].sequence + 1

\* The console a browser shows has no holes, at either stage.
ConsoleIsContiguous == StreamInOrder /\ TerminalIsContiguous

\* As long as the daemon has not restarted, every open terminal ends up with the last line of
\* the daemon's console on its screen.
TerminalCatchesUp ==
    <>[](dconsole.boot = 0 =>
           \A t \in Terminals : term[t].page =>
               term[t].on /\ (dconsole.ring # <<>> => term[t].last = dconsole.sequence))

=============================================================================
