------------------------------- MODULE AppBle -------------------------------
(***************************************************************************)
(* The Bluetooth side: sl_bt_on_event of app.c, fed one event at a time by *)
(* sl_bt_step, with the stack's advertiser, links and event queue as its   *)
(* environment, and the loop of reset_timer_sleep that closes connections. *)
(* The table connections[] is written without a bound; what lies behind it *)
(* is laid out as in the build's map file: padding, then nConnections.     *)
(***************************************************************************)
EXTENDS Naturals, Sequences, FiniteSets, SequencesExt

CONSTANTS
  TableSize,    \* entries of connections[]: 10
  Padding,      \* bytes between connections[] and nConnections: 2
  Handles,      \* connection handles the stack gives out: small numbers, not zero, which marks no link
  Statuses,     \* what a stack command returns: subset of {"ok", "fail"}
  MaxSessions   \* bound: connections opened between two resets

ASSUME TableAssumption ==
  /\ TableSize \in Nat \ {0} /\ Padding \in Nat /\ MaxSessions \in Nat
  /\ Handles \subseteq 1 .. TableSize + Padding /\ Handles # {}
  /\ Statuses \subseteq {"ok", "fail"} /\ Statuses # {}

VARIABLES
  app,           \* "run", "assert" (app_assert_status spins), "closing" or "asleep"
  events,        \* the stack's queue of events the application sees
  booted,        \* the boot event has been handled
  connections,   \* the table
  nConnections,  \* entries written, as the program believes
  advertising,   \* the stack's advertiser
  links,         \* open connections
  sessions       \* history: connections opened since the reset

vars == <<app, events, booted, connections, nConnections, advertising, links, sessions>>
tableVars == <<connections, nConnections>>

Entries == 0 .. TableSize - 1
Ev(type, handle) == [type |-> type, handle |-> handle]
Boot == Ev("boot", 0)

FreshApp ==
  /\ app' = "run" /\ events' = <<Boot>> /\ booted' = FALSE
  /\ connections' = [i \in Entries |-> 0] /\ nConnections' = 0
  /\ advertising' = FALSE /\ links' = {} /\ sessions' = 0

Init ==
  /\ app = "run" /\ events = <<Boot>> /\ booted = FALSE
  /\ connections = [i \in Entries |-> 0] /\ nConnections = 0
  /\ advertising = FALSE /\ links = {} /\ sessions = 0

-----------------------------------------------------------------------------
(***************************************************************************)
(* Handlers.                                                               *)
(***************************************************************************)
\* sl_bt_step pops the oldest event.
Pop(type) ==
  /\ app = "run" /\ events # <<>> /\ Head(events).type = type
  /\ events' = Tail(events)

\* Generate the advertising data and start: the stack refuses a second start, and
\* app_assert_status spins on any status but SL_STATUS_OK.
StartAdvertising(sc) ==
  IF sc = "ok" /\ ~advertising THEN advertising' = TRUE /\ UNCHANGED app
  ELSE app' = "assert" /\ UNCHANGED advertising

\* system_boot: identity, attribute, advertising set, timing, start.
\* Mutant: the advertiser is set up but not started.
MutOnBootSilent ==
  /\ Pop("boot") /\ booted' = TRUE
  /\ UNCHANGED <<app, advertising, tableVars, links, sessions>>
OnBoot ==
  /\ Pop("boot") /\ booted' = TRUE
  /\ \E sc \in Statuses : StartAdvertising(sc)
  /\ UNCHANGED <<tableVars, links, sessions>>

\* connection_opened: connections[nConnections++] = handle.  Past the table the byte falls
\* into the padding, then onto the low byte of nConnections.
\* Mutant: the counter is advanced before the store.
MutOnOpenedPreIncrement ==
  /\ Pop("opened")
  /\ LET h == Head(events).handle
     IN  /\ connections' = [i \in Entries |-> IF i = nConnections + 1 THEN h ELSE connections[i]]
         /\ nConnections' = nConnections + 1
  /\ UNCHANGED <<app, booted, advertising, links, sessions>>

\* Mutant: the counter is advanced by the store and once more after it.
MutOnOpenedTwice ==
  /\ Pop("opened")
  /\ LET h == Head(events).handle
     IN  /\ connections' = [i \in Entries |-> IF i = nConnections THEN h ELSE connections[i]]
         /\ nConnections' = IF nConnections = TableSize + Padding THEN h + 1 ELSE nConnections + 2
  /\ UNCHANGED <<app, booted, advertising, links, sessions>>
\* Mutant: advertising is restarted on every event.
MutOnOpenedAdvertises ==
  /\ Pop("opened")
  /\ \E sc \in Statuses : StartAdvertising(sc)
  /\ UNCHANGED <<tableVars, booted, links, sessions>>
OnOpened ==
  /\ Pop("opened")
  /\ LET h == Head(events).handle
     IN  /\ connections' = [i \in Entries |-> IF i = nConnections THEN h ELSE connections[i]]
         /\ nConnections' = IF nConnections = TableSize + Padding THEN h ELSE nConnections + 1
  /\ UNCHANGED <<app, booted, advertising, links, sessions>>

\* connection_closed: advertise again; the table keeps the closed handle.
\* Mutant: advertising is not restarted.
MutOnClosedSilent ==
  /\ Pop("closed")
  /\ UNCHANGED <<app, advertising, booted, tableVars, links, sessions>>
OnClosed ==
  /\ Pop("closed")
  /\ \E sc \in Statuses : StartAdvertising(sc)
  /\ UNCHANGED <<booted, tableVars, links, sessions>>

\* reset_timer_sleep: from here on the main thread closes connections and handles no event.
BeginClose ==
  /\ app = "run" /\ app' = "closing"
  /\ UNCHANGED <<events, booted, tableVars, advertising, links, sessions>>

\* One round of its loop.  i is compared with the address in nConnections, so all of the
\* table and then any byte of RAM up to its end is taken for a handle.
CloseOne ==
  /\ app = "closing"
  /\ \E h \in {connections[i] : i \in Entries} \cup Handles :
       /\ links' = links \ {h}
       /\ events' = IF h \in links THEN Append(events, Ev("closed", h)) ELSE events
  /\ UNCHANGED <<app, booted, tableVars, advertising, sessions>>

\* The loop ends in EM4, or in the fault handler, which lets no radio interrupt through;
\* reset_no_timer enters EM4 and closes nothing.  Either way advertiser and links are gone.
Sleep ==
  /\ app \in {"run", "closing"} /\ app' = "asleep"
  /\ advertising' = FALSE /\ links' = {}
  /\ UNCHANGED <<events, booted, tableVars, sessions>>

Reset == FreshApp

-----------------------------------------------------------------------------
(***************************************************************************)
(* The stack and the clients.  A connectable advertiser stops when a       *)
(* client connects.                                                        *)
(***************************************************************************)
Awake == app # "asleep"

ClientOpens ==
  /\ Awake /\ advertising /\ sessions < MaxSessions
  /\ \E h \in Handles \ links :
       links' = links \cup {h} /\ events' = Append(events, Ev("opened", h))
  /\ advertising' = FALSE /\ sessions' = sessions + 1
  /\ UNCHANGED <<app, booted, tableVars>>

LinkLost ==
  /\ Awake
  /\ \E h \in links : links' = links \ {h} /\ events' = Append(events, Ev("closed", h))
  /\ UNCHANGED <<app, booted, tableVars, advertising, sessions>>

Handle == OnBoot \/ OnOpened \/ OnClosed

Next == Handle \/ BeginClose \/ CloseOne \/ Sleep \/ Reset \/ ClientOpens \/ LinkLost

Spec == Init /\ [][Next]_vars

\* The super-loop keeps popping events.
FairSpec == Spec /\ WF_vars(Handle)

-----------------------------------------------------------------------------
\* Types, and that the counter never passes its own address: the store that would do so
\* has put a handle into it, and handles are small.
TypeOK ==
  /\ app \in {"run", "assert", "closing", "asleep"}
  /\ events \in Seq([type : {"boot", "opened", "closed"}, handle : Handles \cup {0}])
  /\ booted \in BOOLEAN /\ advertising \in BOOLEAN /\ links \subseteq Handles
  /\ connections \in [Entries -> Handles \cup {0}] /\ nConnections \in 0 .. TableSize + Padding
  /\ sessions \in 0 .. MaxSessions

\* The sensor serves one client at a time: advertising restarts only after the client is
\* gone, and a client that connects stops it.
OneClient == Cardinality(links) + (IF advertising THEN 1 ELSE 0) <= 1

\* The stack refuses no start: whatever the order of opened and closed events in the queue,
\* app_assert ends the program only for a command that fails on its own account, never
\* because advertising was already on.
NoStartRefused == [][app = "run" /\ app' = "assert" => ~advertising]_vars

\* A client can always find the sensor again: after the boot event it advertises, or serves
\* a client, or the closed event that will make it advertise is still queued.
Reachable ==
  booted /\ app = "run" =>
    \/ advertising \/ links # {}
    \/ \E i \in DOMAIN events : events[i].type = "closed"

\* As long as no more clients connected than the table holds, every link whose opened event
\* was handled can be found below nConnections.
OpenIsRecorded ==
  sessions <= TableSize =>
    \A h \in links :
      \/ Contains(events, Ev("opened", h))
      \/ \E i \in Entries : i < nConnections /\ connections[i] = h

\* When the client is gone the sensor does advertise again, or stops handling events.
FoundAgain == booted /\ links = {} ~> advertising \/ links # {} \/ app # "run"
=============================================================================
