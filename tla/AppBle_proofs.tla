---------------------------- MODULE AppBle_proofs ----------------------------
(***************************************************************************)
(* Theorems about the event handler, for any size of the table, any        *)
(* handles and any number of connections.                                  *)
(***************************************************************************)
EXTENDS AppBle, FiniteSetTheorems, SequenceTheorems, TLAPS

\* The right to start the advertiser is a token.  The boot event brings it; the advertiser
\* hands it to the link of the client that connects, the link to its closed event, and the
\* handler of that event back to the advertiser.  A start that fails loses it, and with it
\* the program, which spins in app_assert.  So the queue never holds more than two events.
\* Sleep takes the token out of the game, with advertiser and links, until the reset.
EventType == [type : {"boot", "opened", "closed"}, handle : Handles \cup {0}]
Asleep == app = "asleep" /\ ~advertising /\ links = {} /\ events \in Seq(EventType)
Booting == ~booted /\ ~advertising /\ links = {} /\ events = <<Boot>>
Advertising == booted /\ advertising /\ links = {} /\ events = <<>>
Linked(h) == booted /\ ~advertising /\ links = {h} /\ events \in {<<>>, <<Ev("opened", h)>>}
Gone(h) ==
  /\ booted /\ ~advertising /\ links = {}
  /\ events \in {<<Ev("closed", h)>>, <<Ev("opened", h), Ev("closed", h)>>}
Lost == booted /\ ~advertising /\ links = {} /\ events = <<>> /\ app # "run"
Token == Booting \/ Advertising \/ (\E h \in Handles : Linked(h) \/ Gone(h)) \/ Lost \/ Asleep

\* While the table is not full, the counter counts every connection but the one whose opened
\* event is still queued, and a link whose event was handled is in the table.
Pending == events # <<>> /\ Head(events).type = "opened"
Counted == sessions <= TableSize => nConnections + (IF Pending THEN 1 ELSE 0) = sessions
Recorded ==
  sessions <= TableSize =>
    \A h \in links :
      events = <<>> => \E i \in Entries : i < nConnections /\ connections[i] = h

\* The types of all but the queue and the links, which Token gives.
Types ==
  /\ app \in {"run", "assert", "closing", "asleep"}
  /\ booted \in BOOLEAN /\ advertising \in BOOLEAN
  /\ connections \in [Entries -> Handles \cup {0}] /\ nConnections \in 0 .. TableSize + Padding
  /\ sessions \in 0 .. MaxSessions
BleInv == Types /\ Token /\ Counted /\ Recorded

\* Queues of at most two events.
LEMMA ShortQueues ==
  ASSUME NEW x, NEW y
  PROVE  /\ <<x>> # <<>> /\ Head(<<x>>) = x /\ Tail(<<x>>) = <<>>
         /\ <<x, y>> # <<>> /\ Head(<<x, y>>) = x /\ Tail(<<x, y>>) = <<y>>
         /\ Append(<<>>, x) = <<x>> /\ Append(<<x>>, y) = <<x, y>>
<1>1. <<x>> # <<>> /\ Head(<<x>>) = x
  OBVIOUS
<1>2. <<x, y>> # <<>> /\ Head(<<x, y>>) = x
  OBVIOUS
<1>3. Tail(<<x>>) = <<>>
  OBVIOUS
<1>4. Tail(<<x, y>>) = <<y>>
  OBVIOUS
<1>5. Append(<<>>, x) = <<x>>
  OBVIOUS
<1>6. Append(<<x>>, y) = <<x, y>>
  <2> DEFINE T == {x, y}
  <2>1. <<x>> \in Seq(T) /\ <<x, y>> \in Seq(T) /\ y \in T
    OBVIOUS
  <2>2. Append(<<x>>, y) \in Seq(T) /\ Len(Append(<<x>>, y)) = 2
    BY <2>1
  <2>3. Append(<<x>>, y)[1] = x /\ Append(<<x>>, y)[2] = y
    BY <2>1
  <2>4. Len(<<x, y>>) = 2 /\ \A i \in 1 .. 2 : Append(<<x>>, y)[i] = <<x, y>>[i]
    BY <2>3
  <2> HIDE DEF T
  <2> QED
    BY <2>1, <2>2, <2>4, SeqEqual, Zenon
<1> QED
  BY <1>1, <1>2, <1>3, <1>4, <1>5, <1>6, Zenon

\* The kinds of events.
LEMMA Kinds ==
  ASSUME NEW h
  PROVE  /\ Boot.type = "boot"
         /\ Ev("opened", h).type = "opened" /\ Ev("opened", h).handle = h
         /\ Ev("closed", h).type = "closed" /\ Ev("closed", h).handle = h
  BY DEF Boot, Ev

\* The reset brings the token.
LEMMA BleInit == Init => BleInv
<1> SUFFICES ASSUME Init PROVE BleInv
  OBVIOUS
<1>0. 0 \in 0 .. TableSize + Padding /\ 0 \in 0 .. MaxSessions
  BY TableAssumption
<1>1. Types
  BY <1>0 DEF Init, Types
<1>2. Booting /\ ~Pending
  BY ShortQueues, Kinds DEF Init, Booting, Pending
<1>3. Counted /\ Recorded
  BY <1>2 DEF Init, Counted, Recorded, Booting
<1> QED
  BY <1>1, <1>2, <1>3 DEF BleInv, Token

\* The oldest event of each holder of the token.
LEMMA OldestEvent ==
  ASSUME NEW h
  PROVE  /\ Booting => ~Pending /\ Head(events).type = "boot" /\ Tail(events) = <<>>
         /\ Linked(h) /\ events # <<>> =>
              /\ Head(events).type = "opened" /\ Head(events).handle = h
              /\ Tail(events) = <<>>
         /\ Gone(h) =>
              \/ /\ Head(events).type = "closed" /\ Tail(events) = <<>>
              \/ /\ Head(events).type = "opened" /\ Head(events).handle = h
                 /\ Tail(events) = <<Ev("closed", h)>>
<1>1. Booting => ~Pending /\ Head(events).type = "boot" /\ Tail(events) = <<>>
  <2>1. Head(<<Boot>>) = Boot /\ Tail(<<Boot>>) = <<>>
    BY ShortQueues
  <2> QED
    BY <2>1, Kinds DEF Booting, Pending
<1>2. /\ Head(<<Ev("opened", h)>>) = Ev("opened", h) /\ Tail(<<Ev("opened", h)>>) = <<>>
      /\ Head(<<Ev("closed", h)>>) = Ev("closed", h) /\ Tail(<<Ev("closed", h)>>) = <<>>
  BY ShortQueues, Zenon
<1>3. /\ Head(<<Ev("opened", h), Ev("closed", h)>>) = Ev("opened", h)
      /\ Tail(<<Ev("opened", h), Ev("closed", h)>>) = <<Ev("closed", h)>>
  <2>1. ASSUME NEW x, NEW y PROVE Head(<<x, y>>) = x /\ Tail(<<x, y>>) = <<y>>
    OBVIOUS
  <2> QED
    BY <2>1, Zenon
<1>4. Linked(h) /\ events # <<>> => events = <<Ev("opened", h)>>
  BY Zenon DEF Linked
<1>5. Gone(h) => events = <<Ev("closed", h)>> \/ events = <<Ev("opened", h), Ev("closed", h)>>
  BY Zenon DEF Gone
<1>6. Linked(h) /\ events # <<>> =>
        /\ Head(events).type = "opened" /\ Head(events).handle = h
        /\ Tail(events) = <<>>
  <2>1. ASSUME events = <<Ev("opened", h)>>
        PROVE  /\ Head(events).type = "opened" /\ Head(events).handle = h
               /\ Tail(events) = <<>>
    BY <1>2, <2>1, Kinds
  <2> QED
    BY <1>4, <2>1, Zenon
<1>7. Gone(h) =>
        \/ /\ Head(events).type = "closed" /\ Tail(events) = <<>>
        \/ /\ Head(events).type = "opened" /\ Head(events).handle = h
           /\ Tail(events) = <<Ev("closed", h)>>
  <2>1. ASSUME events = <<Ev("closed", h)>>
        PROVE  Head(events).type = "closed" /\ Tail(events) = <<>>
    BY <1>2, <2>1, Kinds
  <2>2. ASSUME events = <<Ev("opened", h), Ev("closed", h)>>
        PROVE  /\ Head(events).type = "opened" /\ Head(events).handle = h
               /\ Tail(events) = <<Ev("closed", h)>>
    BY <1>3, <2>2, Kinds
  <2> QED
    BY <1>5, <2>1, <2>2, Zenon
<1> QED
  BY <1>1, <1>6, <1>7, Zenon

\* Who holds the token when the boot event is popped.
LEMMA BootPopped ==
  ASSUME Token, Pop("boot")
  PROVE  Booting /\ ~Pending /\ events' = <<>>
<1>1. app = "run" /\ events # <<>> /\ Head(events).type = "boot" /\ events' = Tail(events)
  BY DEF Pop
<1>2. \A h : ~Linked(h) /\ ~Gone(h)
  BY <1>1, OldestEvent
<1>3. Booting
  BY <1>1, <1>2 DEF Token, Advertising, Lost, Asleep
<1> QED
  BY <1>1, <1>3, OldestEvent

\* A closed event: the link is gone, and the queue empty behind it.
LEMMA ClosedPopped ==
  ASSUME Token, Pop("closed")
  PROVE  /\ booted /\ ~advertising /\ links = {}
         /\ ~Pending /\ events' = <<>>
<1>1. app = "run" /\ events # <<>> /\ Head(events).type = "closed" /\ events' = Tail(events)
  BY DEF Pop
<1>2. ~Booting /\ \A h : ~Linked(h)
  BY <1>1, OldestEvent
<1>3. PICK h \in Handles : Gone(h)
  BY <1>1, <1>2 DEF Token, Advertising, Lost, Asleep
<1>4. events' = <<>>
  BY <1>1, <1>3, OldestEvent
<1> QED
  BY <1>1, <1>3, <1>4 DEF Gone, Pending

\* An opened event: its link is there, or its closed event comes next.
LEMMA OpenedPopped ==
  ASSUME Token, Pop("opened")
  PROVE  /\ Pending
         /\ \E h \in Handles :
              /\ Head(events).handle = h
              /\ \/ Linked(h) /\ events' = <<>>
                 \/ Gone(h) /\ events' = <<Ev("closed", h)>>
<1>1. app = "run" /\ events # <<>> /\ Head(events).type = "opened" /\ events' = Tail(events)
  BY DEF Pop
<1>2. ~Booting
  BY <1>1, OldestEvent
<1>3. PICK h \in Handles : Linked(h) \/ Gone(h)
  BY <1>1, <1>2 DEF Token, Advertising, Lost, Asleep
<1>4. CASE Linked(h)
  BY <1>1, <1>4, OldestEvent DEF Pending
<1>5. CASE Gone(h)
  BY <1>1, <1>5, OldestEvent DEF Pending
<1> QED
  BY <1>3, <1>4, <1>5

\* A start of the advertiser by whoever has the token.
LEMMA Started ==
  ASSUME BleInv, booted' \in BOOLEAN, booted', ~advertising, links' = {}, events' = <<>>, ~Pending,
         NEW sc, StartAdvertising(sc), UNCHANGED <<tableVars, sessions>>
  PROVE  BleInv'
<1>1. \/ advertising' = TRUE /\ UNCHANGED app
      \/ app' = "assert" /\ UNCHANGED advertising
  BY DEF StartAdvertising
<1>2. Advertising' \/ Lost'
  BY <1>1 DEF Advertising, Lost
<1>3. Types'
  BY <1>1 DEF BleInv, Types, tableVars
<1>4. ~Pending'
  BY DEF Pending
<1>5. Counted' /\ Recorded'
  BY <1>4 DEF BleInv, Counted, Recorded, tableVars
<1> QED
  BY <1>2, <1>3, <1>5 DEF BleInv, Token

\* system_boot starts the advertiser.
LEMMA BootStep == ASSUME BleInv, OnBoot PROVE BleInv'
<1>1. Booting /\ ~Pending /\ events' = <<>>
  BY BootPopped DEF OnBoot, BleInv
<1> QED
  BY <1>1, Started DEF OnBoot, Booting

\* connection_closed starts it again.
LEMMA ClosedStep == ASSUME BleInv, OnClosed PROVE BleInv'
<1>1. booted /\ ~advertising /\ links = {} /\ ~Pending /\ events' = <<>>
  BY ClosedPopped DEF OnClosed, BleInv
<1> QED
  BY <1>1, Started DEF OnClosed, BleInv, Types

\* connection_opened writes the handle at the counter.
LEMMA OpenedStep == ASSUME BleInv, OnOpened PROVE BleInv'
<1>1. PICK h \in Handles :
        /\ Head(events).handle = h
        /\ \/ Linked(h) /\ events' = <<>>
           \/ Gone(h) /\ events' = <<Ev("closed", h)>>
  BY OpenedPopped DEF OnOpened, BleInv
<1>2. /\ connections' = [i \in Entries |-> IF i = nConnections THEN h ELSE connections[i]]
      /\ nConnections' = IF nConnections = TableSize + Padding THEN h ELSE nConnections + 1
      /\ UNCHANGED <<app, booted, advertising, links, sessions>>
  BY <1>1 DEF OnOpened
<1>3. Linked(h)' \/ Gone(h)'
  BY <1>1, <1>2 DEF Linked, Gone
<1>4. Types'
  <2>1. h \in 1 .. TableSize + Padding /\ TableSize \in Nat /\ Padding \in Nat
    BY TableAssumption
  <2>2. nConnections' \in 0 .. TableSize + Padding
    BY <1>2, <2>1 DEF BleInv, Types
  <2>3. connections' \in [Entries -> Handles \cup {0}]
    BY <1>2 DEF BleInv, Types
  <2> QED
    BY <1>2, <2>2, <2>3 DEF BleInv, Types
<1>5. Pending /\ ~Pending'
  <2>1. Pending
    BY OpenedPopped DEF OnOpened, BleInv
  <2>2. ~Pending'
    BY <1>1, ShortQueues, Kinds DEF Pending
  <2> QED
    BY <2>1, <2>2
<1>6. sessions <= TableSize => nConnections < TableSize /\ nConnections + 1 = sessions
  BY <1>5, TableAssumption DEF BleInv, Types, Counted
<1>7. Counted'
  BY <1>2, <1>5, <1>6, TableAssumption DEF Counted, BleInv, Types
<1>8. Recorded'
  <2> SUFFICES ASSUME sessions <= TableSize, NEW g \in links, events' = <<>>
               PROVE  \E i \in Entries : i < nConnections' /\ connections'[i] = g
    BY <1>2 DEF Recorded
  <2>1. g = h
    BY <1>1 DEF Linked, Gone
  <2>2. nConnections \in Entries /\ nConnections' = nConnections + 1 /\ nConnections < nConnections'
    BY <1>2, <1>6, TableAssumption DEF BleInv, Types, Entries
  <2>3. connections'[nConnections] = g
    BY <1>2, <2>1, <2>2
  <2> QED
    BY <2>2, <2>3
<1> QED
  BY <1>3, <1>4, <1>7, <1>8 DEF BleInv, Token

\* A client connects: the advertiser hands over the token.
LEMMA ConnectStep == ASSUME BleInv, ClientOpens PROVE BleInv'
<1>1. Advertising
  BY DEF ClientOpens, BleInv, Token, Booting, Linked, Gone, Lost, Asleep
<1>2. PICK h \in Handles : links' = {h} /\ events' = <<Ev("opened", h)>>
  BY <1>1, ShortQueues DEF ClientOpens, Advertising
<1>3. /\ advertising' = FALSE /\ sessions' = sessions + 1 /\ sessions < MaxSessions
      /\ UNCHANGED <<app, booted, connections, nConnections>>
  BY DEF ClientOpens, tableVars
<1>4. Linked(h)'
  BY <1>1, <1>2, <1>3 DEF Linked, Advertising
<1>5. Types'
  <2>1. sessions' \in 0 .. MaxSessions
    BY <1>3, TableAssumption DEF BleInv, Types
  <2> QED
    BY <1>3, <2>1 DEF BleInv, Types
<1>6. ~Pending /\ Pending'
  BY <1>1, <1>2, ShortQueues, Kinds DEF Pending, Advertising
<1>7. Counted'
  BY <1>3, <1>6, TableAssumption DEF BleInv, Types, Counted
<1>8. Recorded'
  BY <1>2, ShortQueues DEF Recorded
<1> QED
  BY <1>4, <1>5, <1>7, <1>8 DEF BleInv, Token

\* A link ends: its closed event has the token.
LEMMA LinkEnds ==
  ASSUME BleInv, NEW h \in links, links' = links \ {h}, events' = Append(events, Ev("closed", h)),
         UNCHANGED <<app, booted, tableVars, advertising, sessions>>
  PROVE  BleInv'
<1>1. Linked(h) /\ h \in Handles
  BY DEF BleInv, Token, Booting, Advertising, Linked, Gone, Lost, Asleep
<1>2. links' = {}
  BY <1>1 DEF Linked
<1>3. \/ events = <<>> /\ events' = <<Ev("closed", h)>>
      \/ events = <<Ev("opened", h)>> /\ events' = <<Ev("opened", h), Ev("closed", h)>>
  <2>1. events = <<>> \/ events = <<Ev("opened", h)>>
    BY <1>1, Zenon DEF Linked
  <2>2. \A x, y : Append(<<>>, x) = <<x>> /\ Append(<<x>>, y) = <<x, y>>
    BY ShortQueues
  <2> QED
    BY <2>1, <2>2, Zenon
<1>4. Gone(h)'
  BY <1>1, <1>2, <1>3 DEF Linked, Gone
<1>5. Pending' <=> Pending
  BY <1>3, ShortQueues, Kinds DEF Pending
<1>6. Types' /\ Counted' /\ Recorded'
  BY <1>2, <1>5 DEF BleInv, Types, Counted, Recorded, tableVars
<1> QED
  BY <1>1, <1>4, <1>6 DEF BleInv, Token

\* The token bounds the queue and the links.
LEMMA InvTypes == BleInv => TypeOK
<1> SUFFICES ASSUME BleInv PROVE TypeOK
  OBVIOUS
<1>1. /\ Boot \in EventType
      /\ \A h \in Handles : Ev("opened", h) \in EventType /\ Ev("closed", h) \in EventType
  BY DEF Boot, Ev, EventType
<1>2. \A x, y \in EventType :
        <<>> \in Seq(EventType) /\ <<x>> \in Seq(EventType) /\ <<x, y>> \in Seq(EventType)
  OBVIOUS
<1>3. events \in Seq(EventType) /\ links \subseteq Handles
  BY <1>1, <1>2 DEF BleInv, Token, Booting, Advertising, Linked, Gone, Lost, Asleep
<1> QED
  BY <1>3 DEF TypeOK, BleInv, Types, EventType

\* The main thread leaves the super-loop for the closing loop, or nothing happens.
LEMMA LeavingStep ==
  ASSUME BleInv, UNCHANGED <<events, booted, tableVars, advertising, links, sessions>>,
         app' = app \/ (app = "run" /\ app' = "closing")
  PROVE  BleInv'
<1>1. Token'
  BY DEF BleInv, Token, Booting, Advertising, Linked, Gone, Lost, Asleep
<1>2. Types' /\ Counted' /\ Recorded'
  BY DEF BleInv, Types, Counted, Recorded, Pending, tableVars
<1> QED
  BY <1>1, <1>2 DEF BleInv

\* Power goes, and the radio with it.
LEMMA SleepStep == ASSUME BleInv, Sleep PROVE BleInv'
<1>1. /\ app' = "asleep" /\ advertising' = FALSE /\ links' = {}
      /\ UNCHANGED <<events, booted, connections, nConnections, sessions>>
  BY DEF Sleep, tableVars
<1>2. events \in Seq(EventType)
  BY InvTypes DEF TypeOK, EventType
<1>3. Asleep'
  BY <1>1, <1>2 DEF Asleep, EventType
<1>4. Types' /\ Counted' /\ Recorded'
  BY <1>1 DEF BleInv, Types, Counted, Recorded, Pending
<1> QED
  BY <1>3, <1>4 DEF BleInv, Token

\* Every step keeps the invariant.
LEMMA BleStep == ASSUME BleInv, [Next]_vars PROVE BleInv'
<1>1. CASE OnBoot \/ OnOpened \/ OnClosed \/ ClientOpens
  BY <1>1, BootStep, OpenedStep, ClosedStep, ConnectStep
<1>2. CASE LinkLost
  BY <1>2, LinkEnds DEF LinkLost
<1>3. CASE CloseOne
  <2>1. PICK h : /\ links' = links \ {h}
                 /\ events' = IF h \in links THEN Append(events, Ev("closed", h)) ELSE events
                 /\ UNCHANGED <<app, booted, tableVars, advertising, sessions>>
    BY <1>3 DEF CloseOne
  <2>2. CASE h \in links
    BY <2>1, <2>2, LinkEnds
  <2>3. CASE h \notin links
    <3>1. links' = links
      BY <2>1, <2>3
    <3> QED
      BY <2>1, <2>3, <3>1, LeavingStep
  <2> QED
    BY <2>2, <2>3
<1>4. CASE BeginClose \/ UNCHANGED vars
  <2>1. /\ UNCHANGED <<events, booted, tableVars, advertising, links, sessions>>
        /\ app' = app \/ (app = "run" /\ app' = "closing")
    BY <1>4 DEF BeginClose, vars, tableVars
  <2> QED
    BY <2>1, LeavingStep
<1>5. CASE Reset
  <2>0. 0 \in 0 .. TableSize + Padding /\ 0 \in 0 .. MaxSessions
    BY TableAssumption
  <2>1. Types'
    BY <1>5, <2>0 DEF Reset, FreshApp, Types
  <2>2. Booting' /\ ~Pending'
    BY <1>5, ShortQueues, Kinds DEF Reset, FreshApp, Booting, Pending
  <2>3. Counted' /\ Recorded'
    BY <1>5, <2>2 DEF Reset, FreshApp, Counted, Recorded
  <2> QED
    BY <2>1, <2>2, <2>3 DEF BleInv, Token
<1> QED
  BY <1>1, <1>2, <1>3, <1>4, <1>5, SleepStep DEF Next, Handle

\* The invariant always holds.
LEMMA BleAlways == Spec => []BleInv
<1>1. BleInv /\ [Next]_vars => BleInv'
  BY BleStep
<1> QED
  BY <1>1, BleInit, PTL DEF Spec

-----------------------------------------------------------------------------
\* Types, for any table and any handles: the counter never passes its own address, as only a
\* handle can be written into it.
THEOREM EventsTypeCorrect == Spec => []TypeOK
  BY InvTypes, BleAlways, PTL

\* The sensor serves one client at a time.
THEOREM ServesOne == Spec => []OneClient
<1>1. BleInv => OneClient
  <2>1. Cardinality({}) = 0 /\ \A h : Cardinality({h}) = 1
    BY FS_EmptySet, FS_Singleton
  <2>2. BleInv => links = {} \/ \E h : Linked(h)
    BY Zenon DEF BleInv, Token, Booting, Advertising, Gone, Lost, Asleep
  <2>3. links = {} => OneClient
    BY <2>1 DEF OneClient
  <2>4. ASSUME NEW h, Linked(h) PROVE OneClient
    <3>1. Cardinality(links) = 1 /\ ~advertising
      BY <2>1, <2>4, Zenon DEF Linked
    <3> QED
      BY <3>1 DEF OneClient
  <2> QED
    BY <2>2, <2>3, <2>4
<1> QED
  BY <1>1, BleAlways, PTL

\* The stack refuses no start of the advertiser.
THEOREM StartsAccepted == Spec => NoStartRefused
<1> DEFINE Accepted == app = "run" /\ app' = "assert" => ~advertising
<1>1. BleInv /\ [Next]_vars => Accepted
  <2> SUFFICES ASSUME BleInv, Next, app = "run", app' = "assert" PROVE ~advertising
    BY DEF vars
  <2>1. OnBoot \/ OnClosed
    BY DEF Next, Handle, OnOpened, BeginClose, CloseOne, Sleep, Reset, FreshApp, ClientOpens, LinkLost
  <2>2. OnBoot => Booting
    BY BootPopped DEF OnBoot, BleInv
  <2>3. OnClosed => ~advertising
    BY ClosedPopped DEF OnClosed, BleInv
  <2> QED
    BY <2>1, <2>2, <2>3 DEF Booting
<1>2. NoStartRefused <=> [][Accepted]_vars
  BY DEF NoStartRefused
<1> HIDE DEF Accepted
<1> QED
  BY <1>1, <1>2, BleAlways, PTL DEF Spec

\* While it handles events, the sensor can be found, serves a client, or will be told to
\* advertise.
THEOREM CanBeFound == Spec => []Reachable
<1>1. BleInv => Reachable
  <2> SUFFICES ASSUME BleInv, booted, app = "run", ~advertising, links = {}
               PROVE  \E i \in DOMAIN events : events[i].type = "closed"
    BY DEF Reachable
  <2>1. PICK h \in Handles : Gone(h)
    BY DEF BleInv, Token, Booting, Advertising, Linked, Lost, Asleep
  <2>2. CASE events = <<Ev("closed", h)>>
    <3>1. 1 \in DOMAIN events /\ events[1] = Ev("closed", h)
      BY <2>2
    <3> QED
      BY <3>1, Kinds
  <2>3. CASE events = <<Ev("opened", h), Ev("closed", h)>>
    <3>1. 2 \in DOMAIN events /\ events[2] = Ev("closed", h)
      BY <2>3
    <3> QED
      BY <3>1, Kinds
  <2> QED
    BY <2>1, <2>2, <2>3 DEF Gone
<1> QED
  BY <1>1, BleAlways, PTL

\* Every open link is in the table or about to be, as long as the table has room.
THEOREM LinksAreRecorded == Spec => []OpenIsRecorded
<1>1. BleInv => OpenIsRecorded
  <2> SUFFICES ASSUME BleInv, sessions <= TableSize, NEW h \in links
               PROVE  \/ Contains(events, Ev("opened", h))
                      \/ \E i \in Entries : i < nConnections /\ connections[i] = h
    BY DEF OpenIsRecorded
  <2>1. Linked(h)
    BY DEF BleInv, Token, Booting, Advertising, Linked, Gone, Lost, Asleep
  <2>2. CASE events = <<>>
    BY <2>2 DEF BleInv, Recorded
  <2>3. CASE events = <<Ev("opened", h)>>
    <3>1. 1 \in 1 .. Len(events) /\ events[1] = Ev("opened", h)
      BY <2>3
    <3> QED
      BY <3>1 DEF Contains
  <2> QED
    BY <2>1, <2>2, <2>3 DEF Linked
<1> QED
  BY <1>1, BleAlways, PTL
=============================================================================
