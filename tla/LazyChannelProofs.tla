-------------------------- MODULE LazyChannelProofs --------------------------
(***************************************************************************)
(* Proofs about LazyChannel, for any number of requests, connections and    *)
(* faults.                                                                  *)
(***************************************************************************)
EXTENDS LazyChannel, FiniteSetTheorems, TLAPS

\* Who names a connection finds it in the table until its 'close' was handled.
NamedConnections == \A c \in Callers : call[c].conn # NoConnection => conn[call[c].conn] # "free"

\* A call that no fault touched waits in a calm system, and once it has cached a
\* channel there is one.
UntouchedInv ==
  \A c \in Callers : ~call[c].disturbed =>
    /\ At(c, {"connecting", "opening", "setup", "sent"}) => Calm
    /\ At(c, {"setup"}) => channel # NoConnection

\* A cached channel has its topology, or a call that is declaring it; messages
\* that may arrive before it is complete were published in between.
TopologyInv ==
  /\ channel # NoConnection =>
       \/ declared = Declarations
       \/ \E d \in Callers : At(d, {"setup"}) /\ call[d].conn = channel
  /\ \A c \in Callers : At(c, {"sent"}) /\ call[c].found # Declarations =>
                         call[c].disturbed \/ call[c].shared

\* What may bring a connection down: a fault, or messages that were early.
Explained == faults < FaultBudget \/ early

CauseInv ==
  /\ ~Calm => Explained
  /\ \A c \in Callers : /\ call[c].disturbed => Explained
                        /\ At(c, {"sent"}) /\ call[c].found < SyncExchange => early

\* Without overlap one call at a time is in getChannel, and every connection is
\* the cached one or that call's.
AloneInv ==
  ~overlapped =>
    /\ \A c, d \in Inside : c = d
    /\ \A c \in Callers :
         /\ At(c, {"connecting", "opening"}) => channel = NoConnection
         /\ At(c, {"setup"}) => channel = call[c].conn
    /\ \A k \in Connections :
         conn[k] # "free" => k = channel \/ \E c \in Inside : call[c].conn = k

IInv ==
  /\ TypeOK
  /\ CachedChannelWorks
  /\ NamedConnections
  /\ UntouchedInv
  /\ CauseInv
  /\ TopologyInv
  /\ AloneInv
  /\ NoFailureWithoutFault

LEMMA Names == NoConnection \notin Connections /\ Connections \subseteq Nat
BY ChannelAssumption DEF NoConnection, Connections

PcType == {"idle", "connecting", "opening", "setup", "sent", "queued", "lost", "failed"}

LEMMA CallIsTyped ==
  ASSUME NEW pc \in PcType, NEW c \in Connections \cup {NoConnection},
         NEW step \in 0..(Declarations - 1), NEW found \in 0..Declarations,
         NEW disturbed \in BOOLEAN, NEW shared \in BOOLEAN
  PROVE  /\ Call(pc, c, step, found, disturbed, shared) \in CallType
         /\ Call(pc, c, step, found, disturbed, shared).pc = pc
         /\ Call(pc, c, step, found, disturbed, shared).conn = c
         /\ Call(pc, c, step, found, disturbed, shared).step = step
         /\ Call(pc, c, step, found, disturbed, shared).found = found
         /\ Call(pc, c, step, found, disturbed, shared).disturbed = disturbed
         /\ Call(pc, c, step, found, disturbed, shared).shared = shared
BY DEF Call, CallType, PcType

LEMMA IdleIsTyped ==
  /\ Idle \in CallType /\ Idle.pc = "idle" /\ Idle.conn = NoConnection
  /\ ~Idle.disturbed
BY DEF Idle, Call, CallType, Declarations

\* A call that moves on keeps its history.
LEMMA MovedIsTyped ==
  ASSUME NEW q \in CallType, NEW pc \in PcType, NEW c \in Connections \cup {NoConnection},
         NEW step \in 0..(Declarations - 1), NEW found \in 0..Declarations
  PROVE  /\ Moved(q, pc, c, step, found) \in CallType
         /\ Moved(q, pc, c, step, found).pc = pc
         /\ Moved(q, pc, c, step, found).conn = c
         /\ Moved(q, pc, c, step, found).found = found
         /\ Moved(q, pc, c, step, found).disturbed = q.disturbed
         /\ Moved(q, pc, c, step, found).shared = q.shared
<1>1. q.disturbed \in BOOLEAN /\ q.shared \in BOOLEAN
  BY DEF CallType
<1> QED
  BY <1>1, CallIsTyped DEF Moved

\* Messages find what was answered, and what was sent before them.
LEMMA FoundIsTyped ==
  ASSUME TypeOK, NEW k, NEW answered \in 0..Declarations
  PROVE  Found(k, answered) \in 0..Declarations /\ Found(k, answered) >= answered
<1> DEFINE sent == {c \in Callers : At(c, {"setup"}) /\ call[c].conn = k}
<1>1. CASE sent = {}
  <2>1. Found(k, answered) = answered
    BY <1>1 DEF Found
  <2> QED
    BY <2>1 DEF Declarations
<1>2. CASE sent # {}
  <2> DEFINE d == CHOOSE c \in sent : TRUE
  <2>1. d \in Callers
    BY <1>2
  <2>2. Found(k, answered) = Later(answered, call[d].step + 1)
    BY <1>2 DEF Found
  <2> HIDE DEF d, sent
  <2>3. call[d].step \in 0..(Declarations - 1)
    BY <2>1 DEF TypeOK, CallType
  <2> QED
    BY <2>2, <2>3 DEF Later, Declarations
<1> QED
  BY <1>1, <1>2

\* What publishing makes of a call.
LEMMA PublishedIsTyped ==
  ASSUME TypeOK, CachedChannelWorks, NEW q \in CallType,
         NEW answered \in 0..Declarations
  PROVE  /\ Published(q, channel, answered) \in CallType
         /\ Published(q, channel, answered).disturbed = q.disturbed
         /\ Published(q, channel, answered).shared = q.shared
         /\ channel = NoConnection =>
              /\ Published(q, channel, answered).pc = "failed"
              /\ Published(q, channel, answered).conn = NoConnection
         /\ channel # NoConnection =>
              /\ Published(q, channel, answered).pc = "sent"
              /\ Published(q, channel, answered).conn = channel
              /\ Published(q, channel, answered).found = Found(channel, answered)
<1>1. /\ 0 \in 0..(Declarations - 1) /\ 0 \in 0..Declarations
      /\ {"failed", "sent"} \subseteq PcType
  BY DEF Declarations, PcType
<1>2. CASE channel = NoConnection
  <2>1. Published(q, channel, answered) = Moved(q, "failed", NoConnection, 0, 0)
    BY <1>2, Names DEF Published
  <2>2. /\ Moved(q, "failed", NoConnection, 0, 0) \in CallType
        /\ Moved(q, "failed", NoConnection, 0, 0).pc = "failed"
        /\ Moved(q, "failed", NoConnection, 0, 0).conn = NoConnection
        /\ Moved(q, "failed", NoConnection, 0, 0).disturbed = q.disturbed
        /\ Moved(q, "failed", NoConnection, 0, 0).shared = q.shared
    BY DEF Moved, Call, CallType, Declarations
  <2> QED
    BY <1>1, <1>2, <2>1, <2>2
<1>3. CASE channel # NoConnection
  <2>1. channel \in Connections /\ conn[channel] # "free"
    BY <1>3 DEF TypeOK, CachedChannelWorks
  <2>2. Found(channel, answered) \in 0..Declarations
    BY FoundIsTyped
  <2>3. Published(q, channel, answered) = Moved(q, "sent", channel, 0, Found(channel, answered))
    BY <2>1 DEF Published
  <2> QED
    BY <1>1, <1>3, <2>1, <2>2, <2>3, MovedIsTyped
<1> QED
  BY <1>2, <1>3

\* One call changes and the others keep theirs.
LEMMA OneCallChanges ==
  ASSUME TypeOK, NEW c \in Callers, NEW q \in CallType, call' = [call EXCEPT ![c] = q]
  PROVE  /\ call' \in [Callers -> CallType]
         /\ call'[c] = q
         /\ \A d \in Callers : d # c => call'[d] = call[d]
BY DEF TypeOK

------------------------------------------------------------------------------
LEMMA InitIInv == Init => IInv
<1> SUFFICES ASSUME Init PROVE IInv
  OBVIOUS
<1>1. \A c \in Callers : call[c].pc = "idle" /\ call[c].conn = NoConnection
  BY IdleIsTyped DEF Init
<1>2. call \in [Callers -> CallType]
  BY IdleIsTyped DEF Init
<1>3. /\ conn \in [Connections -> {"free", "open", "dead"}] /\ channel = NoConnection
      /\ \A k \in Connections : conn[k] = "free"
  BY DEF Init
<1>9. up \in BOOLEAN /\ overlapped \in BOOLEAN /\ early \in BOOLEAN
  BY Zenon DEF Init
<1>10. declared \in 0..Declarations
  BY DEF Init, Declarations
<1>8. faults \in 0..FaultBudget
  BY ChannelAssumption DEF Init
<1>4. TypeOK
  BY <1>1, <1>2, <1>3, <1>8, <1>9, <1>10 DEF TypeOK, At
<1>5. CachedChannelWorks /\ NamedConnections /\ TopologyInv
  BY <1>1, <1>3 DEF CachedChannelWorks, NamedConnections, TopologyInv, At
<1>6. UntouchedInv /\ CauseInv /\ NoFailureWithoutFault
  <2>1. \A c \in Callers : ~call[c].disturbed
    BY IdleIsTyped DEF Init
  <2>2. Calm
    BY <1>3 DEF Init, Calm
  <2> QED
    BY <1>1, <2>1, <2>2 DEF UntouchedInv, CauseInv, NoFailureWithoutFault, At
<1>7. AloneInv
  BY <1>1, <1>3 DEF AloneInv, Inside, At
<1> QED
  BY <1>4, <1>5, <1>6, <1>7 DEF IInv

LEMMA BeginStep ==
  ASSUME IInv, NEW c \in Callers, Begin(c)
  PROVE  IInv'
<1> USE DEF IInv
<1>1. ASSUME NEW sh \in BOOLEAN
      PROVE  /\ NewCall(sh) \in CallType /\ NewCall(sh).pc = "connecting"
             /\ NewCall(sh).conn = NoConnection
             /\ NewCall(sh).disturbed = ~Calm /\ NewCall(sh).shared = sh
  <2> DEFINE dis == ~Calm
  <2>1. dis \in BOOLEAN
    BY DEF Calm
  <2>2. NewCall(sh) = Call("connecting", NoConnection, 0, 0, dis, sh)
    BY DEF NewCall
  <2> HIDE DEF dis
  <2>3. /\ NewCall(sh) \in CallType /\ NewCall(sh).pc = "connecting"
        /\ NewCall(sh).conn = NoConnection
        /\ NewCall(sh).disturbed = dis /\ NewCall(sh).shared = sh
    BY <2>1, <2>2 DEF Call, CallType, Declarations
  <2> QED
    BY <2>3 DEF dis
<1>2. /\ UNCHANGED <<up, declared, conn, channel, faults>> /\ call[c].pc = "idle"
      /\ declared \in 0..Declarations
  BY DEF Begin, At, TypeOK
<1>3. CASE channel # NoConnection
  <2> DEFINE fresh == NewCall(Inside # {})
             q     == Published(fresh, channel, declared)
  <2>1. /\ call' = [call EXCEPT ![c] = q] /\ overlapped' = overlapped
        /\ early' = (early \/ Found(channel, declared) < SyncExchange)
    BY <1>3 DEF Begin
  <2>a. (Inside # {}) \in BOOLEAN
    OBVIOUS
  <2>b. /\ fresh \in CallType /\ fresh.pc = "connecting" /\ fresh.conn = NoConnection
        /\ fresh.disturbed = ~Calm /\ fresh.shared = (Inside # {})
    BY <1>1, <2>a
  <2> HIDE DEF fresh
  <2>2. /\ q \in CallType /\ q.pc = "sent" /\ q.conn = channel
        /\ q.disturbed = ~Calm /\ q.shared = (Inside # {}) /\ q.found = Found(channel, declared)
    BY <2>b, <1>2, <1>3, PublishedIsTyped
  <2> HIDE DEF q
  <2>3. /\ call' \in [Callers -> CallType] /\ call'[c] = q
        /\ \A d \in Callers : d # c => call'[d] = call[d]
    BY <2>1, <2>2, OneCallChanges
  <2>4. q.found # Declarations => q.shared
    <3>1. declared = Declarations => q.found = Declarations
      BY <1>2, <2>2, FoundIsTyped DEF Declarations
    <3> QED
      BY <2>2, <3>1, <1>3 DEF TopologyInv, Inside, At
  <2>5. TypeOK'
    BY <1>2, <1>3, <2>1, <2>2, <2>3 DEF TypeOK, At
  <2>6. CachedChannelWorks' /\ NamedConnections'
    BY <1>2, <2>2, <2>3 DEF CachedChannelWorks, NamedConnections
  <2>7. CauseInv'
    <3>1. (early => early') /\ (Explained => Explained') /\ (Calm' <=> Calm)
      BY <1>2, <2>1 DEF Explained, Calm
    <3>2. q.found < SyncExchange => early'
      BY <2>1, <2>2
    <3>3. q.disturbed => Explained'
      BY <2>2, <3>1 DEF CauseInv
    <3> QED
      BY <2>3, <3>1, <3>2, <3>3 DEF CauseInv, At
  <2>9. UntouchedInv' /\ NoFailureWithoutFault'
    BY <1>2, <2>2, <2>3, <2>7 DEF UntouchedInv, CauseInv, Explained, NoFailureWithoutFault, At, Calm
  <2>8. TopologyInv'
    BY <1>2, <2>2, <2>3, <2>4 DEF TopologyInv, At
  <2>0. AloneInv'
    BY <1>2, <2>1, <2>2, <2>3 DEF AloneInv, Inside, At
  <2> QED
    BY <2>5, <2>6, <2>7, <2>8, <2>9, <2>0
<1>4. CASE channel = NoConnection
  <2>0. /\ NewCall(FALSE) \in CallType /\ NewCall(FALSE).pc = "connecting"
        /\ NewCall(FALSE).conn = NoConnection /\ NewCall(FALSE).disturbed = ~Calm
    BY <1>1
  <2>1. /\ call' = [call EXCEPT ![c] = NewCall(FALSE)] /\ overlapped' = (overlapped \/ Inside # {})
        /\ early' = early
    BY <1>4 DEF Begin
  <2>2. /\ call' \in [Callers -> CallType] /\ call'[c] = NewCall(FALSE)
        /\ \A d \in Callers : d # c => call'[d] = call[d]
    BY <2>0, <2>1, OneCallChanges
  <2>3. TypeOK'
    BY <2>0, <1>2, <2>1, <2>2 DEF TypeOK, At
  <2>4. CachedChannelWorks' /\ NamedConnections'
    BY <2>0, <1>2, <2>2 DEF CachedChannelWorks, NamedConnections
  <2>5. UntouchedInv' /\ CauseInv' /\ NoFailureWithoutFault'
    BY <2>0, <1>2, <2>1, <2>2
       DEF UntouchedInv, CauseInv, Explained, NoFailureWithoutFault, At, Calm
  <2>6. TopologyInv'
    BY <2>0, <1>2, <1>4, <2>2 DEF TopologyInv, At
  <2>7. AloneInv'
    BY <2>0, <1>2, <1>4, <2>1, <2>2 DEF AloneInv, Inside, At
  <2> QED
    BY <2>3, <2>4, <2>5, <2>6, <2>7
<1> QED
  BY <1>3, <1>4

LEMMA ConnectedStep ==
  ASSUME IInv, NEW c \in Callers, Connected(c)
  PROVE  IInv'
<1> USE DEF IInv
<1>1. PICK k \in Connections :
        /\ conn[k] = "free"
        /\ conn' = [conn EXCEPT ![k] = "open"]
        /\ call' = [call EXCEPT ![c] = Moved(@, "opening", k, 0, 0)]
  BY DEF Connected
<1> DEFINE q == Moved(call[c], "opening", k, 0, 0)
<1>2. /\ UNCHANGED <<up, declared, channel, overlapped, early, faults>>
      /\ call[c].pc = "connecting" /\ call[c].conn = NoConnection /\ call[c] \in CallType
  BY DEF Connected, At, TypeOK
<1>3. /\ q \in CallType /\ q.pc = "opening" /\ q.conn = k /\ q.found = 0
      /\ q.disturbed = call[c].disturbed /\ q.shared = call[c].shared
  BY <1>2 DEF Moved, Call, CallType, Declarations
<1>4. call' = [call EXCEPT ![c] = q]
  BY <1>1
<1> HIDE DEF q
<1>5. /\ call' \in [Callers -> CallType] /\ call'[c] = q
      /\ \A d \in Callers : d # c => call'[d] = call[d]
  BY <1>3, <1>4, OneCallChanges
<1>6. /\ conn' \in [Connections -> {"free", "open", "dead"}] /\ conn'[k] = "open"
      /\ \A j \in Connections : j # k => conn'[j] = conn[j]
  BY <1>1 DEF TypeOK
<1>7. \A d \in Callers : call[d].conn # k
  BY <1>1, Names DEF NamedConnections, TypeOK
<1>8. TypeOK'
  BY <1>2, <1>3, <1>5, <1>6, <1>7, Names DEF TypeOK, At
<1>9. CachedChannelWorks' /\ NamedConnections'
  <2>1. CachedChannelWorks'
    BY <1>2, <1>6 DEF CachedChannelWorks, TypeOK
  <2>2. ASSUME NEW d \in Callers, call'[d].conn # NoConnection
        PROVE  conn'[call'[d].conn] # "free"
    <3>1. CASE d = c
      BY <3>1, <1>3, <1>5, <1>6
    <3>2. CASE d # c
      <4>1. call'[d] = call[d] /\ call[d] \in CallType
        BY <3>2, <1>5 DEF TypeOK
      <4>2. call[d].conn \in Connections
        BY <2>2, <4>1 DEF CallType
      <4> QED
        BY <2>2, <4>1, <4>2, <1>6, <1>7 DEF NamedConnections
    <3> QED
      BY <3>1, <3>2
  <2> QED
    BY <2>1, <2>2 DEF NamedConnections
<1>10. Calm => Calm'
  BY <1>2, <1>6 DEF Calm
<1>11. UntouchedInv' /\ CauseInv' /\ NoFailureWithoutFault'
  BY <1>2, <1>3, <1>5, <1>10 DEF UntouchedInv, CauseInv, Explained, NoFailureWithoutFault, At
<1>12. TopologyInv'
  BY <1>2, <1>3, <1>5 DEF TopologyInv, At
<1>13. AloneInv'
  BY <1>2, <1>3, <1>5, <1>6 DEF AloneInv, Inside, At
<1> QED
  BY <1>8, <1>9, <1>11, <1>12, <1>13

\* A request that ends outside getChannel, with an answer it may have.
LEMMA EndStep ==
  ASSUME IInv, NEW c \in Callers, NEW answer \in {"failed", "queued", "lost"},
         call' = [call EXCEPT ![c] = Ended(c, answer)],
         UNCHANGED <<up, conn, channel, overlapped, early, faults>>,
         declared' \in 0..Declarations, declared' >= declared,
         call[c].pc \in {"connecting", "sent"},
         answer = "failed" => call[c].disturbed,
         answer = "lost" => call[c].disturbed \/ call[c].shared
  PROVE  IInv'
<1> USE DEF IInv
<1> DEFINE q == Ended(c, answer)
<1>1. call[c] \in CallType
  BY DEF TypeOK
<1>2. /\ q \in CallType /\ q.pc = answer /\ q.conn = NoConnection
      /\ q.disturbed = call[c].disturbed /\ q.shared = call[c].shared
  BY <1>1 DEF Ended, Moved, Call, CallType, Declarations
<1> HIDE DEF q
<1>3. /\ call' \in [Callers -> CallType] /\ call'[c] = q
      /\ \A d \in Callers : d # c => call'[d] = call[d]
  BY <1>2, OneCallChanges DEF q
<1>4. TypeOK'
  BY <1>2, <1>3 DEF TypeOK, At
<1>5. CachedChannelWorks' /\ NamedConnections'
  BY <1>2, <1>3 DEF CachedChannelWorks, NamedConnections
<1>6. UntouchedInv' /\ CauseInv' /\ NoFailureWithoutFault'
  BY <1>2, <1>3 DEF UntouchedInv, CauseInv, Explained, NoFailureWithoutFault, At, Calm
<1>7. TopologyInv'
  <2>1. declared = Declarations => declared' = Declarations
    BY DEF TypeOK, Declarations
  <2> QED
    BY <1>2, <1>3, <2>1 DEF TopologyInv, At
<1>8. AloneInv'
  <2>1. call[c].pc = "connecting" => call[c].conn = NoConnection
    BY DEF TypeOK, At
  <2> QED
    BY <1>2, <1>3, <2>1, Names DEF AloneInv, Inside, At
<1> QED
  BY <1>4, <1>5, <1>6, <1>7, <1>8

LEMMA RefusedStep ==
  ASSUME IInv, NEW c \in Callers, Refused(c)
  PROVE  IInv'
<1>1. call[c].disturbed
  BY DEF IInv, UntouchedInv, Refused, Calm, At
<1>2. declared' \in 0..Declarations /\ declared' >= declared
  BY DEF IInv, TypeOK, Refused, Declarations
<1> QED
  BY <1>1, <1>2, EndStep DEF Refused, At

\* The broker has no less than before, and no more than there is.
LEMMA HasIsTyped ==
  ASSUME TypeOK, NEW c \in Callers
  PROVE  Has(c) \in 0..Declarations /\ Has(c) >= declared /\ Has(c) >= call[c].found
BY DEF TypeOK, CallType, Has, Later, Declarations

LEMMA ArriveStep ==
  ASSUME IInv, NEW c \in Callers, Arrive(c)
  PROVE  IInv'
<1>1. declared' \in 0..Declarations /\ declared' >= declared
  BY HasIsTyped DEF IInv, Arrive
<1>2. CASE Has(c) = Declarations
  BY <1>1, <1>2, EndStep DEF Arrive, At
<1>3. CASE Has(c) # Declarations
  <2>1. call[c].found # Declarations
    BY <1>3, HasIsTyped DEF IInv, TypeOK, CallType, Declarations
  <2>2. call[c].disturbed \/ call[c].shared
    BY <2>1 DEF IInv, TopologyInv, Arrive, At
  <2> QED
    BY <1>1, <1>3, <2>2, EndStep DEF Arrive, At
<1> QED
  BY <1>2, <1>3

LEMMA AnswerStep ==
  ASSUME IInv, NEW c \in Callers, Answer(c)
  PROVE  IInv'
<1> USE DEF IInv
<1>1. /\ call' \in [Callers -> CallType] /\ call'[c] = Idle
      /\ \A d \in Callers : d # c => call'[d] = call[d]
  BY IdleIsTyped, OneCallChanges DEF Answer
<1>2. UNCHANGED <<up, declared, conn, channel, overlapped, early, faults>>
      /\ call[c].pc \in {"queued", "lost", "failed"}
  BY DEF Answer, At
<1>3. TypeOK'
  BY <1>1, <1>2, IdleIsTyped DEF TypeOK, At
<1>4. CachedChannelWorks' /\ NamedConnections'
  BY <1>1, <1>2, IdleIsTyped DEF CachedChannelWorks, NamedConnections
<1>5. UntouchedInv' /\ CauseInv' /\ NoFailureWithoutFault'
  BY <1>1, <1>2, IdleIsTyped DEF UntouchedInv, CauseInv, Explained, NoFailureWithoutFault, At, Calm
<1>6. TopologyInv'
  BY <1>1, <1>2, IdleIsTyped DEF TopologyInv, At
<1>7. AloneInv'
  BY <1>1, <1>2, IdleIsTyped DEF AloneInv, Inside, At
<1> QED
  BY <1>3, <1>4, <1>5, <1>6, <1>7

LEMMA OpenedStep ==
  ASSUME IInv, NEW c \in Callers, Opened(c)
  PROVE  IInv'
<1> USE DEF IInv
<1> DEFINE k == call[c].conn
<1> DEFINE q == Moved(call[c], "setup", k, 0, 0)
<1>1. /\ UNCHANGED <<up, declared, conn, overlapped, early, faults>> /\ channel' = k
      /\ call[c].pc = "opening" /\ call[c] \in CallType
      /\ k \in Connections /\ conn[k] = "open"
  BY DEF Opened, At, TypeOK, CallType
<1>2. /\ q \in CallType /\ q.pc = "setup" /\ q.conn = k /\ q.found = 0
      /\ q.disturbed = call[c].disturbed /\ q.shared = call[c].shared
  BY <1>1 DEF Moved, Call, CallType, Declarations
<1>3. call' = [call EXCEPT ![c] = q]
  BY DEF Opened
<1> HIDE DEF q
<1>4. /\ call' \in [Callers -> CallType] /\ call'[c] = q
      /\ \A d \in Callers : d # c => call'[d] = call[d]
  BY <1>2, <1>3, OneCallChanges
<1>5. TypeOK'
  BY <1>1, <1>2, <1>4, Names DEF TypeOK, At
<1>6. CachedChannelWorks' /\ NamedConnections'
  BY <1>1, <1>2, <1>4 DEF CachedChannelWorks, NamedConnections
<1>7. UntouchedInv' /\ CauseInv' /\ NoFailureWithoutFault'
  BY <1>1, <1>2, <1>4, Names DEF UntouchedInv, CauseInv, Explained, NoFailureWithoutFault, At, Calm
<1>8. TopologyInv'
  BY <1>1, <1>2, <1>4 DEF TopologyInv, At
<1>9. AloneInv'
  BY <1>1, <1>2, <1>4, Names DEF AloneInv, Inside, At
<1> QED
  BY <1>5, <1>6, <1>7, <1>8, <1>9

LEMMA DeclareStep ==
  ASSUME IInv, NEW c \in Callers, Declare(c)
  PROVE  IInv'
<1> USE DEF IInv
<1> DEFINE k == call[c].conn
<1> DEFINE step == call[c].step + 1
<1>1. /\ UNCHANGED <<up, conn, channel, overlapped, early, faults>>
      /\ call[c].pc = "setup" /\ call[c] \in CallType
      /\ k \in Connections /\ conn[k] = "open"
  BY DEF Declare, At, TypeOK, CallType
<1>2. step \in 1..Declarations
  BY <1>1 DEF CallType, Declarations
<1>3. /\ declared' = Later(declared, step)
      /\ declared' \in 0..Declarations /\ declared' >= declared /\ declared' >= step
  BY <1>2 DEF Declare, TypeOK, Declarations, Later
<1>4. CASE step # Declarations
  <2> DEFINE q == Moved(call[c], "setup", k, step, 0)
  <2>1. call' = [call EXCEPT ![c] = q]
    BY <1>4 DEF Declare
  <2>2. /\ q \in CallType /\ q.pc = "setup" /\ q.conn = k
        /\ q.disturbed = call[c].disturbed /\ q.shared = call[c].shared
    BY <1>1, <1>2, <1>4 DEF Moved, Call, CallType, Declarations
  <2> HIDE DEF q
  <2>3. /\ call' \in [Callers -> CallType] /\ call'[c] = q
        /\ \A d \in Callers : d # c => call'[d] = call[d]
    BY <2>1, <2>2, OneCallChanges
  <2>4. TypeOK'
    BY <1>1, <1>3, <2>2, <2>3 DEF TypeOK, At
  <2>5. CachedChannelWorks' /\ NamedConnections'
    BY <1>1, <2>2, <2>3 DEF CachedChannelWorks, NamedConnections
  <2>6. UntouchedInv' /\ CauseInv' /\ NoFailureWithoutFault'
    BY <1>1, <2>2, <2>3 DEF UntouchedInv, CauseInv, Explained, NoFailureWithoutFault, At, Calm
  <2>7. TopologyInv'
    <3>1. declared = Declarations => declared' = Declarations
      BY <1>3 DEF TypeOK, Declarations
    <3> QED
      BY <1>1, <2>2, <2>3, <3>1 DEF TopologyInv, At
  <2>8. AloneInv'
    BY <1>1, <2>2, <2>3 DEF AloneInv, Inside, At
  <2> QED
    BY <2>4, <2>5, <2>6, <2>7, <2>8
<1>5. CASE step = Declarations
  <2> DEFINE q == Published(call[c], channel, declared')
  <2>1. call' = [call EXCEPT ![c] = q]
    BY <1>3, <1>5 DEF Declare
  <2>2. declared' = Declarations
    BY <1>3, <1>5 DEF Declarations
  <2>3. /\ q \in CallType /\ q.disturbed = call[c].disturbed /\ q.shared = call[c].shared
        /\ channel = NoConnection => q.pc = "failed" /\ q.conn = NoConnection
        /\ channel # NoConnection =>
             q.pc = "sent" /\ q.conn = channel /\ q.found = Found(channel, declared')
    BY <1>1, <1>3, PublishedIsTyped
  <2>4. channel # NoConnection => q.found = Declarations
    BY <1>3, <2>2, <2>3, FoundIsTyped DEF Declarations
  <2> HIDE DEF q
  <2>5. /\ call' \in [Callers -> CallType] /\ call'[c] = q
        /\ \A d \in Callers : d # c => call'[d] = call[d]
    BY <2>1, <2>3, OneCallChanges
  <2>6. TypeOK'
    BY <1>1, <1>3, <2>3, <2>5 DEF TypeOK, At
  <2>7. CachedChannelWorks' /\ NamedConnections'
    BY <1>1, <2>3, <2>5 DEF CachedChannelWorks, NamedConnections
  <2>9. q.pc = "sent" => ~(q.found < SyncExchange)
    BY <2>3, <2>4 DEF SyncExchange, Declarations
  <2>8. UntouchedInv' /\ CauseInv' /\ NoFailureWithoutFault'
    BY <1>1, <2>3, <2>5, <2>9
       DEF UntouchedInv, CauseInv, Explained, NoFailureWithoutFault, At, Calm
  <2>0. TopologyInv'
    BY <1>1, <2>2, <2>3, <2>4, <2>5 DEF TopologyInv, At
  <2>10. AloneInv'
    BY <1>1, <2>3, <2>5 DEF AloneInv, Inside, At
  <2> QED
    BY <2>6, <2>7, <2>8, <2>0, <2>10
<1> QED
  BY <1>4, <1>5

LEMMA NoticeCloseStep ==
  ASSUME IInv, NEW k \in Connections, NoticeClose(k)
  PROVE  IInv'
<1> USE DEF IInv
<1>1. /\ UNCHANGED <<up, declared, overlapped, early, faults>> /\ channel' = NoConnection
      /\ conn[k] = "dead" /\ call' = Rejected(k)
  BY DEF NoticeClose
<1>2. /\ conn' \in [Connections -> {"free", "open", "dead"}] /\ conn'[k] = "free"
      /\ \A j \in Connections : j # k => conn'[j] = conn[j]
  BY DEF NoticeClose, TypeOK
<1>3. \A c \in Callers : call[c] \in CallType
  BY DEF TypeOK
<1>4. /\ \A c \in Callers : call[c].conn # k => call'[c] = call[c]
      /\ \A c \in Callers : call[c].conn = k =>
           /\ call'[c] \in CallType
           /\ call'[c].pc \in {"lost", "failed"} /\ call'[c].conn = NoConnection
           /\ call'[c].disturbed = call[c].disturbed
  <2> SUFFICES ASSUME NEW c \in Callers
               PROVE  /\ call[c].conn # k => call'[c] = call[c]
                      /\ call[c].conn = k =>
                           /\ call'[c] \in CallType
                           /\ call'[c].pc \in {"lost", "failed"} /\ call'[c].conn = NoConnection
                           /\ call'[c].disturbed = call[c].disturbed
    OBVIOUS
  <2>1. CASE call[c].conn # k
    BY <1>1, <2>1 DEF Rejected
  <2>2. CASE call[c].conn = k
    <3> DEFINE answer == IF At(c, {"sent"}) THEN "lost" ELSE "failed"
    <3>1. answer \in {"lost", "failed"}
      OBVIOUS
    <3>2. call'[c] = Ended(c, answer)
      BY <1>1, <2>2 DEF Rejected
    <3> HIDE DEF answer
    <3>3. call[c] \in CallType
      BY <1>3
    <3> QED
      BY <2>2, <3>1, <3>2, <3>3 DEF Ended, Moved, Call, CallType, Declarations
  <2> QED
    BY <2>1, <2>2
<1>5. \A c \in Callers :
        call[c].pc \in {"connecting", "opening", "setup", "sent"} => call[c].disturbed
  BY <1>1 DEF UntouchedInv, Calm, At
<1>6. \A c \in Callers : call[c].conn = k => call[c].pc \in {"opening", "setup", "sent"}
  BY Names DEF TypeOK, At
<1>7. call' \in [Callers -> CallType]
  <2>1. call' = [c \in Callers |-> call'[c]]
    BY <1>1 DEF Rejected
  <2> QED
    BY <1>3, <1>4, <2>1
<1>8. TypeOK'
  BY <1>1, <1>2, <1>4, <1>7, Names DEF TypeOK, At
<1>9. CachedChannelWorks'
  BY <1>1 DEF CachedChannelWorks
<1>10. NamedConnections'
  <2> SUFFICES ASSUME NEW c \in Callers, call'[c].conn # NoConnection
               PROVE  conn'[call'[c].conn] # "free"
    BY DEF NamedConnections
  <2>1. call[c].conn # k /\ call'[c] = call[c]
    BY <1>4
  <2>2. call[c].conn \in Connections
    BY <1>3, <2>1 DEF CallType
  <2> QED
    BY <1>2, <2>1, <2>2 DEF NamedConnections
<1>11. \A c \in Callers :
         \/ call'[c] = call[c]
         \/ call'[c].pc \in {"lost", "failed"} /\ call'[c].disturbed
  BY <1>4, <1>5, <1>6
<1>12. UntouchedInv'
  BY <1>5, <1>11 DEF UntouchedInv, At
<1>13. CauseInv' /\ NoFailureWithoutFault'
  <2>1. Explained /\ (Explained' <=> Explained)
    BY <1>1 DEF CauseInv, Calm, Explained
  <2>2. CauseInv'
    BY <1>1, <1>11, <2>1 DEF CauseInv, At
  <2> QED
    BY <1>11, <2>2 DEF NoFailureWithoutFault, CauseInv, Explained, At
<1>14. TopologyInv'
  BY <1>1, <1>5, <1>11 DEF TopologyInv, At
<1>15. AloneInv'
  <2> SUFFICES ASSUME ~overlapped
               PROVE  AloneInv'
    BY <1>1 DEF AloneInv
  <2>1. \A c \in Callers : call'[c].pc \in {"connecting", "opening", "setup"} =>
          call'[c] = call[c] /\ call[c].conn # k
    BY <1>4
  <2>2. \A c \in Callers : call'[c].pc # "setup"
    <3> SUFFICES ASSUME NEW c \in Callers, call'[c].pc = "setup"
                 PROVE  FALSE
      OBVIOUS
    <3>1. call[c].pc = "setup" /\ call[c].conn # k /\ c \in Inside
      BY <2>1 DEF Inside, At
    <3>2. channel = call[c].conn
      BY <3>1 DEF AloneInv, At
    <3>3. PICK d \in Inside : call[d].conn = k
      BY <1>1, <3>1, <3>2 DEF AloneInv
    <3> QED
      BY <3>1, <3>3 DEF AloneInv
  <2>3. \A c, d \in Inside' : c = d
    BY <2>1 DEF AloneInv, Inside, At
  <2>4. ASSUME NEW j \in Connections, conn'[j] # "free"
        PROVE  \E c \in Inside' : call'[c].conn = j
    <3>1. j # k /\ conn[j] # "free"
      BY <1>2, <2>4
    <3>2. CASE \E c \in Inside : call[c].conn = j
      BY <3>1, <3>2, <1>4 DEF Inside, At
    <3>3. CASE j = channel
      <4>1. PICK d \in Inside : call[d].conn = k
        BY <1>1, <3>1, <3>3 DEF AloneInv
      <4>2. call[d].pc \in {"opening", "setup"}
        BY <4>1, <1>6 DEF Inside, At
      <4> QED
        BY <3>1, <3>3, <4>1, <4>2, Names DEF AloneInv, At, Inside
    <3> QED
      BY <3>1, <3>2, <3>3 DEF AloneInv
  <2> QED
    BY <1>1, <2>2, <2>3, <2>4 DEF AloneInv, At
<1> QED
  BY <1>8, <1>9, <1>10, <1>12, <1>13, <1>14, <1>15

\* When a connection dies and every call under way is marked, it does not matter
\* which are left open; a request whose messages were early may end with it.
LEMMA DyingStep ==
  ASSUME IInv, UNCHANGED <<channel, overlapped, early>>,
         up' \in BOOLEAN, faults' \in 0..FaultBudget, Explained',
         declared' \in 0..Declarations, declared' >= declared,
         conn' \in [Connections -> {"free", "open", "dead"}],
         \A k \in Connections : conn'[k] = "free" <=> conn[k] = "free",
         call' \in [Callers -> CallType],
         \A c \in Callers :
           \/ /\ call'[c].pc = call[c].pc /\ call'[c].conn = call[c].conn
              /\ call'[c].found = call[c].found /\ call'[c].shared = call[c].shared
              /\ call[c].disturbed => call'[c].disturbed
              /\ call[c].pc # "idle" => call'[c].disturbed
           \/ /\ call[c].pc = "sent" /\ call'[c].pc = "lost" /\ call'[c].conn = NoConnection
              /\ call'[c].disturbed \/ call'[c].shared
  PROVE  IInv'
<1> USE DEF IInv
<1>1. TypeOK'
  BY DEF TypeOK, At
<1>2. CachedChannelWorks'
  BY DEF CachedChannelWorks, TypeOK
<1>3. NamedConnections'
  <2>1. \A c \in Callers : call[c].conn # NoConnection => call[c].conn \in Connections
    BY DEF TypeOK, CallType
  <2> QED
    BY <2>1 DEF NamedConnections
<1>4. UntouchedInv'
  BY DEF UntouchedInv, At
<1>5. CauseInv'
  BY DEF CauseInv, At
<1>6. NoFailureWithoutFault'
  BY <1>5 DEF NoFailureWithoutFault, CauseInv, Explained, At
<1>7. TopologyInv'
  <2>1. declared = Declarations => declared' = Declarations
    BY DEF TypeOK, Declarations
  <2> QED
    BY <2>1 DEF TopologyInv, At
<1>8. AloneInv'
  BY DEF AloneInv, Inside, At
<1> QED
  BY <1>1, <1>2, <1>3, <1>4, <1>5, <1>6, <1>7, <1>8

\* What Disturbed does to each call.
LEMMA DisturbedIsTyped ==
  ASSUME TypeOK
  PROVE  /\ Disturbed \in [Callers -> CallType]
         /\ \A c \in Callers :
              /\ Disturbed[c].pc = call[c].pc /\ Disturbed[c].conn = call[c].conn
              /\ Disturbed[c].found = call[c].found /\ Disturbed[c].shared = call[c].shared
              /\ call[c].disturbed => Disturbed[c].disturbed
              /\ call[c].pc # "idle" => Disturbed[c].disturbed
<1>1. ASSUME NEW c \in Callers
      PROVE  /\ Disturbed[c] \in CallType
             /\ Disturbed[c].pc = call[c].pc /\ Disturbed[c].conn = call[c].conn
             /\ Disturbed[c].found = call[c].found /\ Disturbed[c].shared = call[c].shared
             /\ call[c].disturbed => Disturbed[c].disturbed
             /\ call[c].pc # "idle" => Disturbed[c].disturbed
  <2>0. call[c] \in CallType
    BY DEF TypeOK
  <2>1. CASE call[c].pc = "idle"
    <3>1. Disturbed[c] = call[c]
      BY <2>1 DEF Disturbed, At
    <3> QED
      BY <2>0, <2>1, <3>1
  <2>2. CASE call[c].pc # "idle"
    <3>1. Disturbed[c] = [call[c] EXCEPT !.disturbed = TRUE]
      BY <2>2 DEF Disturbed, At
    <3> QED
      BY <2>0, <3>1 DEF CallType
  <2> QED
    BY <2>1, <2>2
<1>2. Disturbed = [c \in Callers |-> Disturbed[c]]
  BY DEF Disturbed
<1> QED
  BY <1>1, <1>2

LEMMA FaultStep ==
  ASSUME IInv, call' = Disturbed, UNCHANGED <<declared, channel, overlapped, early>>,
         up' \in BOOLEAN, faults' \in 0..FaultBudget, faults' < FaultBudget,
         conn' \in [Connections -> {"free", "open", "dead"}],
         \A k \in Connections : conn'[k] = "free" <=> conn[k] = "free"
  PROVE  IInv'
<1>1. declared' \in 0..Declarations /\ declared' >= declared
  BY DEF IInv, TypeOK, Declarations
<1>2. Explained'
  BY DEF Explained
<1> QED
  BY <1>1, <1>2, DisturbedIsTyped, DyingStep DEF IInv

LEMMA ExchangeIsMissingStep ==
  ASSUME IInv, NEW c \in Callers, ExchangeIsMissing(c)
  PROVE  IInv'
<1> USE DEF IInv
<1> DEFINE q == Ended(c, "lost")
<1>1. /\ call[c].pc = "sent" /\ call[c] \in CallType /\ call[c].found < SyncExchange
      /\ conn[call[c].conn] = "open"
  BY HasIsTyped DEF ExchangeIsMissing, At, TypeOK, CallType, SyncExchange, Declarations
<1>2. /\ q \in CallType /\ q.pc = "lost" /\ q.conn = NoConnection
      /\ q.disturbed = call[c].disturbed /\ q.shared = call[c].shared
  BY <1>1 DEF Ended, Moved, Call, CallType, Declarations
<1>3. call' = [Disturbed EXCEPT ![c] = q]
  BY DEF ExchangeIsMissing
<1>4. q.disturbed \/ q.shared
  BY <1>1, <1>2 DEF TopologyInv, At, SyncExchange, Declarations
<1> HIDE DEF q
<1>5. call'[c] = q /\ \A d \in Callers : d # c => call'[d] = Disturbed[d]
  BY <1>3, DisturbedIsTyped
<1>6. call' \in [Callers -> CallType]
  BY <1>2, <1>3, DisturbedIsTyped
<1>7. Explained'
  BY <1>1 DEF CauseInv, Explained, ExchangeIsMissing, At
<1>8. /\ UNCHANGED <<channel, overlapped, early>> /\ up' \in BOOLEAN
      /\ faults' \in 0..FaultBudget
      /\ declared' \in 0..Declarations /\ declared' >= declared
  BY HasIsTyped DEF ExchangeIsMissing, TypeOK
<1>9. /\ conn' \in [Connections -> {"free", "open", "dead"}]
      /\ \A k \in Connections : conn'[k] = "free" <=> conn[k] = "free"
  BY <1>1 DEF ExchangeIsMissing, TypeOK
<1>10. \A d \in Callers :
         \/ /\ call'[d].pc = call[d].pc /\ call'[d].conn = call[d].conn
            /\ call'[d].found = call[d].found /\ call'[d].shared = call[d].shared
            /\ call[d].disturbed => call'[d].disturbed
            /\ call[d].pc # "idle" => call'[d].disturbed
         \/ /\ call[d].pc = "sent" /\ call'[d].pc = "lost" /\ call'[d].conn = NoConnection
            /\ call'[d].disturbed \/ call'[d].shared
  BY <1>1, <1>2, <1>4, <1>5, DisturbedIsTyped
<1> QED
  BY <1>6, <1>7, <1>8, <1>9, <1>10, DyingStep

\* A step that leaves calls and connections alone and takes no declaration back.
LEMMA QuietStep ==
  ASSUME IInv, UNCHANGED <<conn, channel, call, overlapped, early, faults>>,
         up' \in BOOLEAN, up => up', declared' \in 0..Declarations, declared' >= declared
  PROVE  IInv'
<1> USE DEF IInv
<1>1. declared = Declarations => declared' = Declarations
  BY DEF TypeOK, Declarations
<1>2. TypeOK' /\ CachedChannelWorks' /\ NamedConnections'
  BY DEF TypeOK, CachedChannelWorks, NamedConnections, At
<1>3. UntouchedInv' /\ CauseInv' /\ NoFailureWithoutFault'
  BY DEF UntouchedInv, CauseInv, Explained, NoFailureWithoutFault, At, Calm
<1>4. TopologyInv' /\ AloneInv'
  BY <1>1 DEF TopologyInv, AloneInv, Inside, At
<1> QED
  BY <1>2, <1>3, <1>4

LEMMA NextIInv == IInv /\ [Next]_vars => IInv'
<1> SUFFICES ASSUME IInv, [Next]_vars PROVE IInv'
  OBVIOUS
<1>1. TypeOK
  BY DEF IInv
<1>2. ASSUME NEW c \in Callers, Begin(c) PROVE IInv'
  BY <1>2, BeginStep
<1>3. ASSUME NEW c \in Callers, Connected(c) PROVE IInv'
  BY <1>3, ConnectedStep
<1>4. ASSUME NEW c \in Callers, Refused(c) PROVE IInv'
  BY <1>4, RefusedStep
<1>5. ASSUME NEW c \in Callers, Opened(c) PROVE IInv'
  BY <1>5, OpenedStep
<1>6. ASSUME NEW c \in Callers, Declare(c) PROVE IInv'
  BY <1>6, DeclareStep
<1>7. ASSUME NEW c \in Callers, Arrive(c) PROVE IInv'
  BY <1>7, ArriveStep
<1>8. ASSUME NEW c \in Callers, Answer(c) PROVE IInv'
  BY <1>8, AnswerStep
<1>15. ASSUME NEW c \in Callers, ExchangeIsMissing(c) PROVE IInv'
  BY <1>15, ExchangeIsMissingStep
<1>9. ASSUME NEW k \in Connections, NoticeClose(k) PROVE IInv'
  BY <1>9, NoticeCloseStep
<1>10. ASSUME NEW k \in Connections, Drop(k) PROVE IInv'
  <2>1. /\ conn' \in [Connections -> {"free", "open", "dead"}]
        /\ \A j \in Connections : conn'[j] = "free" <=> conn[j] = "free"
    BY <1>1, <1>10 DEF Drop, TypeOK
  <2>2. faults' \in 0..FaultBudget /\ faults' < FaultBudget
    BY <1>1, <1>10, ChannelAssumption DEF Drop, TypeOK
  <2>3. up' \in BOOLEAN
    BY <1>1, <1>10 DEF Drop, TypeOK
  <2> QED
    BY <1>10, <2>1, <2>2, <2>3, FaultStep DEF Drop
<1>11. CASE Stop
  <2>1. /\ conn' \in [Connections -> {"free", "open", "dead"}]
        /\ \A j \in Connections : conn'[j] = "free" <=> conn[j] = "free"
    BY <1>1, <1>11 DEF Stop, TypeOK
  <2>2. faults' \in 0..FaultBudget /\ faults' < FaultBudget
    BY <1>1, <1>11, ChannelAssumption DEF Stop, TypeOK
  <2>3. up' \in BOOLEAN
    BY <1>11, Zenon DEF Stop
  <2> QED
    BY <1>11, <2>1, <2>2, <2>3, FaultStep DEF Stop
<1>12. CASE Start
  <2>1. up' \in BOOLEAN /\ (up => up')
    BY <1>12, Zenon DEF Start
  <2>2. declared' \in 0..Declarations /\ declared' >= declared
    BY <1>1, <1>12 DEF Start, TypeOK, Declarations
  <2> QED
    BY <1>12, <2>1, <2>2, QuietStep DEF Start
<1>13. CASE WorkerDeclares
  <2>1. up' \in BOOLEAN /\ (up => up')
    BY <1>1, <1>13 DEF WorkerDeclares, TypeOK
  <2>2. declared' \in 0..Declarations /\ declared' >= declared
    BY <1>1, <1>13 DEF WorkerDeclares, TypeOK, Declarations
  <2> QED
    BY <1>13, <2>1, <2>2, QuietStep DEF WorkerDeclares
<1>14. CASE UNCHANGED vars
  <2>1. up' \in BOOLEAN /\ (up => up')
    BY <1>1, <1>14 DEF vars, TypeOK
  <2>2. declared' \in 0..Declarations /\ declared' >= declared
    BY <1>1, <1>14 DEF vars, TypeOK, Declarations
  <2> QED
    BY <1>14, <2>1, <2>2, QuietStep DEF vars
<1> QED
  BY <1>2, <1>3, <1>4, <1>5, <1>6, <1>7, <1>8, <1>9, <1>10, <1>11, <1>12, <1>13, <1>14, <1>15
     DEF Next

LEMMA IInvHolds == Spec => []IInv
<1>1. Init => IInv
  BY InitIInv
<1>2. IInv /\ [Next]_vars => IInv'
  BY NextIInv
<1> QED
  BY <1>1, <1>2, PTL DEF Spec

------------------------------------------------------------------------------
\* The variables of getChannel, the requests and the broker keep to their types,
\* and no two calls set up the same connection.
THEOREM TypeCorrect == Spec => []TypeOK
<1>1. IInv => TypeOK
  BY DEF IInv
<1> QED
  BY <1>1, IInvHolds, PTL

\* getChannel never returns a channel whose 'close' event was handled, however
\* many calls and connections interleave (config/rabbitmq.js:47-61).
THEOREM CacheWorks == Spec => []CachedChannelWorks
<1>1. IInv => CachedChannelWorks
  BY DEF IInv
<1> QED
  BY <1>1, IInvHolds, PTL

\* A request fails only when a connection died under it or the broker was down,
\* and loses a message silently only then or because it overlapped another one in
\* getChannel; and without a fault a connection dies only for a request that used
\* the cached channel before the exchange of snapshots was declared.
THEOREM FaultsExplainFailures == Spec => []NoFailureWithoutFault
<1>1. IInv => NoFailureWithoutFault
  BY DEF IInv
<1> QED
  BY <1>1, IInvHolds, PTL

\* No history of drops and restarts leaves a second connection open, unless two
\* calls were connecting at once.
THEOREM OneConnectionAtATime == Spec => []OneConnection
<1>1. IInv => OneConnection
  <2> SUFFICES ASSUME IInv, ~overlapped PROVE Cardinality(Open) <= 1
    BY DEF OneConnection
  <2>0. /\ \A c \in Callers : /\ At(c, {"connecting", "opening"}) => channel = NoConnection
                              /\ At(c, {"setup"}) => channel = call[c].conn
        /\ \A k \in Open : k = channel \/ \E c \in Inside : call[c].conn = k
        /\ \A k \in Open : k \in Connections
        /\ \A c, d \in Inside : c = d
    BY DEF IInv, AloneInv, Open
  <2>1. PICK k : Open \subseteq {k}
    <3>1. CASE channel # NoConnection
      <4>1. \A c \in Inside : call[c].conn \in {channel, NoConnection}
        BY <2>0, <3>1 DEF Inside, At
      <4>2. Open \subseteq {channel}
        BY <2>0, <4>1, Names
      <4> QED
        BY <4>2
    <3>2. CASE channel = NoConnection /\ Inside # {}
      <4>1. PICK c : c \in Inside
        BY <3>2
      <4>2. Open \subseteq {call[c].conn}
        BY <2>0, <3>2, <4>1, Names
      <4> QED
        BY <4>2
    <3>3. CASE channel = NoConnection /\ Inside = {}
      <4>1. Open = {}
        BY <2>0, <3>3, Names
      <4> QED
        BY <4>1
    <3> QED
      BY <3>1, <3>2, <3>3
  <2>2. IsFiniteSet({k}) /\ Cardinality({k}) = 1
    BY FS_Singleton
  <2>3. Cardinality(Open) <= Cardinality({k}) /\ Cardinality(Open) \in Nat
    BY <2>1, <2>2, FS_Subset, FS_CardinalityType
  <2> QED
    BY <2>2, <2>3
<1> QED
  BY <1>1, IInvHolds, PTL
==============================================================================
