--------------------------- MODULE CdpBridgeProofs ---------------------------
(***************************************************************************)
(* For every set of targets and every bound: the bridge leaks no socket    *)
(* and is never stranded, and the wiring of the server is a bridge with    *)
(* listeners, so both hold of it as well.                                  *)
(***************************************************************************)
EXTENDS ServerWiring, TLAPS

(***************************************************************************)
(* The inductive invariant.  The client is the current call's or none; the *)
(* stages that hold a socket are the client's; a call that has not got to  *)
(* its target yet holds none.                                              *)
(***************************************************************************)
HeldByCurrent ==
    /\ client \in {0, connectGen}
    /\ open \subseteq {client}
    /\ \A a \in Calls : At(a, "connecting") => a = client /\ a \notin open
    /\ \A a \in Calls : At(a, "reading") => a \in open
    /\ \A a \in open : At(a, "reading") \/ At(a, "done")
    /\ \A a \in open : active = attempts[a].target
    /\ \A a \in Calls : Current(a) /\ (At(a, "probing") \/ At(a, "fetching")) => client = 0

BridgeInv == BridgeTypeOK /\ HeldByCurrent /\ NeverStranded

LEMMA DetachedType ==
    ASSUME BridgeInv
    PROVE  /\ Detached(attempts) \in [Calls -> Attempts]
           /\ \A a \in Calls : a # client => Detached(attempts)[a] = attempts[a]
           /\ \A a \in Calls : Detached(attempts)[a].stage \notin {"connecting", "reading"}
           /\ \A a \in Calls : Detached(attempts)[a].stage \in {attempts[a].stage, "done"}
  BY DEF BridgeInv, BridgeTypeOK, HeldByCurrent, Detached, At, Attempts, InFlight

LEMMA InitInv == BridgeInit => BridgeInv
  <1> SUFFICES ASSUME BridgeInit PROVE BridgeInv
    OBVIOUS
  <1>1. NoAttempt \in Attempts /\ NoAttempt.stage = "none"
    BY DEF NoAttempt, Attempts, TargetIds
  <1>2. attempts \in [Calls -> Attempts]
    BY <1>1 DEF BridgeInit
  <1>3. 0 \in 0..MaxConnects
    BY BridgeAssumption
  <1>4. BridgeTypeOK
    BY <1>2, <1>3 DEF BridgeInit, BridgeTypeOK, TargetIds
  <1>5. HeldByCurrent
    BY <1>1 DEF BridgeInit, HeldByCurrent, At
  <1>6. NeverStranded
    BY DEF BridgeInit, NeverStranded
  <1> QED BY <1>4, <1>5, <1>6 DEF BridgeInv

(* The three ways in which a call of connect() begins. *)
LEMMA BeginInv ==
    ASSUME BridgeInv, NEW wanted \in TargetIds, NEW required \in BOOLEAN,
           Begin(wanted, required),
           verified' = verified, down' = down, generation' = generation,
           active' \in TargetIds, preferred' \in TargetIds, lastConnected' = lastConnected,
           emitted' \in {"none", "disconnected"}
    PROVE  BridgeInv'
  <1>1. connectGen + 1 \in Calls /\ connectGen' = connectGen + 1 /\ connectGen \in Nat
    BY BridgeAssumption DEF Begin, BridgeInv, BridgeTypeOK, Calls
  <1>2. client' = 0 /\ open' = {} /\ timer' = FALSE
    BY DEF Begin, DetachClient, BridgeInv, HeldByCurrent
  <1> DEFINE new == [NoAttempt EXCEPT !.stage = "probing", !.wanted = wanted, !.required = required]
  <1>3. new \in Attempts /\ new.stage = "probing"
    BY DEF NoAttempt, Attempts, InFlight, TargetIds
  <1>4. attempts' = [Detached(attempts) EXCEPT ![connectGen + 1] = new]
    BY DEF Begin
  <1> HIDE DEF new
  <1>5. attempts' \in [Calls -> Attempts] /\ attempts'[connectGen + 1].stage = "probing"
    BY <1>1, <1>3, <1>4, DetachedType
  <1>6. \A a \in Calls : attempts'[a].stage \notin {"connecting", "reading"}
    BY <1>1, <1>3, <1>4, DetachedType
  <1>7. BridgeTypeOK'
    <2>1. connectGen' \in 0..MaxConnects /\ client' \in 0..MaxConnects /\ open' \subseteq Calls
      BY <1>1, <1>2, BridgeAssumption DEF Calls
    <2>2. verified' \in BOOLEAN /\ timer' \in BOOLEAN /\ down' \in BOOLEAN
      BY <1>2 DEF BridgeTypeOK, BridgeInv
    <2>3. lastConnected' \in TargetIds /\ generation' \in [Targets -> Nat]
      BY DEF BridgeTypeOK, BridgeInv
    <2> QED BY <1>5, <2>1, <2>2, <2>3 DEF BridgeTypeOK
  <1>8. HeldByCurrent'
    BY <1>1, <1>2, <1>6 DEF HeldByCurrent, At, Current
  <1>9. NeverStranded'
    BY <1>1, <1>5 DEF NeverStranded, InFlight
  <1> QED BY <1>7, <1>8, <1>9 DEF BridgeInv

(* The catch of connect(). *)
LEMMA CaughtInv ==
    ASSUME BridgeInv, NEW a \in Calls, Current(a), Caught(a),
           UNCHANGED <<connectGen, verified, down, active, preferred, lastConnected,
                       generation, workspace>>
    PROVE  BridgeInv'
  <1>1. client' = 0 /\ open' = {} /\ timer' = (timer \/ ~down)
    BY DEF Caught, DetachClient, Schedule, BridgeInv, HeldByCurrent
  <1>2. attempts' = [Detached(attempts) EXCEPT ![a].stage = "done"]
    BY DEF Caught
  <1>3. attempts' \in [Calls -> Attempts]
    <2>1. Detached(attempts) \in [Calls -> Attempts]
      BY DetachedType
    <2>2. [Detached(attempts)[a] EXCEPT !.stage = "done"] \in Attempts
      BY <2>1 DEF Attempts
    <2> QED BY <1>2, <2>1, <2>2
  <1>4. \A b \in Calls : attempts'[b].stage \notin {"connecting", "reading"}
    BY <1>2, DetachedType DEF Attempts
  <1>5. BridgeTypeOK'
    <2>1. client' \in 0..MaxConnects /\ open' \subseteq Calls
      BY <1>1, BridgeAssumption DEF Calls
    <2>2. timer' \in BOOLEAN
      BY <1>1
    <2> QED BY <1>3, <2>1, <2>2 DEF BridgeTypeOK, BridgeInv, Caught
  <1>6. HeldByCurrent'
    BY <1>1, <1>4 DEF HeldByCurrent, At, Current
  <1>7. NeverStranded'
    BY <1>1 DEF NeverStranded, BridgeInv, BridgeTypeOK
  <1> QED BY <1>5, <1>6, <1>7 DEF BridgeInv

(* No step of the bridge breaks the invariant. *)
LEMMA NextInv == BridgeInv /\ [BridgeNext]_bridgeVars => BridgeInv'
  <1> SUFFICES ASSUME BridgeInv, [BridgeNext]_bridgeVars PROVE BridgeInv'
    OBVIOUS
  <1>a. connectGen \in 0..MaxConnects /\ connectGen \in Nat /\ attempts \in [Calls -> Attempts]
    BY BridgeAssumption DEF BridgeInv, BridgeTypeOK
  <1>b. NoTarget \in TargetIds /\ Targets \subseteq TargetIds
    BY DEF TargetIds
  <1>1. CASE FirstConnect
    <2>1. active \in TargetIds /\ preferred \in TargetIds
      BY DEF BridgeInv, BridgeTypeOK
    <2> QED BY <1>1, <1>b, <2>1, BeginInv DEF FirstConnect
  <1>2. CASE TimerFires
    <2>1. active \in TargetIds /\ preferred \in TargetIds
      BY DEF BridgeInv, BridgeTypeOK
    <2> QED BY <1>2, <2>1, BeginInv DEF TimerFires
  <1>3. ASSUME NEW t \in Targets, SwitchWindow(t) PROVE BridgeInv'
    BY <1>3, <1>b, BeginInv DEF SwitchWindow
  <1>4. CASE Disconnect
    <2>1. /\ down' = TRUE /\ client' = 0 /\ open' = {} /\ timer' = FALSE
      BY <1>4 DEF Disconnect, DetachClient, BridgeInv, HeldByCurrent
    <2>2. attempts' \in [Calls -> Attempts]
      BY <1>4, DetachedType DEF Disconnect, Attempts, InFlight
    <2>3. \A a \in Calls : attempts'[a].stage \notin InFlight
      BY <1>4, DetachedType DEF Disconnect, Attempts, InFlight
    <2>4. BridgeTypeOK'
      <3>1. client' \in 0..MaxConnects /\ open' \subseteq Calls /\ down' \in BOOLEAN /\ timer' \in BOOLEAN
        <4>1. client' \in 0..MaxConnects /\ open' \subseteq Calls
          BY <2>1, BridgeAssumption
        <4>2. down' \in BOOLEAN /\ timer' \in BOOLEAN
          BY <2>1, Zenon
        <4> QED BY <4>1, <4>2
      <3> QED BY <1>4, <1>b, <2>2, <3>1 DEF Disconnect, BridgeTypeOK, BridgeInv
    <2>5. HeldByCurrent'
      BY <2>1, <2>3 DEF HeldByCurrent, At, InFlight
    <2>6. NeverStranded'
      BY <2>1 DEF NeverStranded
    <2> QED BY <2>4, <2>5, <2>6 DEF BridgeInv
  <1>5. CASE SocketCloses
    <2>1. client \in Calls /\ client \in open /\ client = connectGen
      BY <1>5 DEF SocketCloses, BridgeInv, BridgeTypeOK, HeldByCurrent, Calls
    <2>2. client' = 0 /\ open' = {} /\ timer' = (timer \/ ~down) /\ down' = down /\ connectGen' = connectGen
      BY <1>5 DEF SocketCloses, DetachClient, Schedule, BridgeInv, HeldByCurrent
    <2>3. attempts' = [attempts EXCEPT ![client].stage = "done"]
      BY <1>5 DEF SocketCloses, Ended
    <2>4. attempts' \in [Calls -> Attempts]
      BY <1>a, <2>1, <2>3 DEF Attempts
    <2>5. \A a \in Calls : attempts'[a].stage \notin {"connecting", "reading"}
      BY <1>a, <2>1, <2>3 DEF BridgeInv, HeldByCurrent, At, Attempts
    <2>6. BridgeTypeOK'
      <3>1. client' \in 0..MaxConnects /\ open' \subseteq Calls /\ timer' \in BOOLEAN
        BY <2>2, BridgeAssumption
      <3>2. emitted' \in {"disconnected", "lost_then_connected"}
        BY <1>5 DEF SocketCloses
      <3> QED BY <1>5, <1>b, <2>4, <3>1, <3>2 DEF SocketCloses, BridgeTypeOK, BridgeInv
    <2>7. HeldByCurrent'
      BY <2>2, <2>5 DEF HeldByCurrent, At, Current
    <2>8. NeverStranded'
      BY <2>2 DEF NeverStranded, BridgeInv, BridgeTypeOK
    <2> QED BY <2>6, <2>7, <2>8 DEF BridgeInv
  <1>6. ASSUME NEW a \in Calls, NEW s \in {"probing", "fetching"}, Superseded(a, s)
        PROVE  BridgeInv'
    <2>1. attempts' = [attempts EXCEPT ![a].stage = "done"] /\ a # connectGen
      BY <1>6 DEF Superseded, Ended, Current
    <2>2. /\ attempts' \in [Calls -> Attempts]
          /\ \A b \in Calls : b # a => attempts'[b] = attempts[b]
          /\ attempts'[a].stage = "done" /\ attempts'[a].target = attempts[a].target
      BY <1>a, <2>1 DEF Attempts
    <2>3. BridgeTypeOK'
      BY <1>6, <2>2 DEF Superseded, BridgeTypeOK, BridgeInv
    <2>4. HeldByCurrent'
      <3>1. a \notin open
        BY <1>6 DEF Superseded, HeldByCurrent, BridgeInv, At
      <3> QED BY <1>6, <2>2, <3>1 DEF Superseded, HeldByCurrent, BridgeInv, At, Current, BridgeTypeOK
    <2>5. NeverStranded'
      BY <1>6, <1>a, <2>1, <2>2 DEF Superseded, NeverStranded, BridgeInv, Calls
    <2> QED BY <2>3, <2>4, <2>5 DEF BridgeInv
  <1>7. ASSUME NEW a \in Calls, ProbeAnswers(a) PROVE BridgeInv'
    <2>0. client = 0 /\ open = {} /\ client' = 0 /\ open' = {} /\ a = connectGen /\ connectGen' = connectGen
      BY <1>7 DEF ProbeAnswers, BridgeInv, HeldByCurrent, At, Current, BridgeTypeOK, Calls
    <2>1. PICK s \in {"fetching", "done"} : attempts' = [attempts EXCEPT ![a].stage = s]
      BY <1>7 DEF ProbeAnswers, Moves, Ended
    <2>2. /\ attempts' \in [Calls -> Attempts]
          /\ \A b \in Calls : b # a => attempts'[b] = attempts[b]
          /\ attempts'[a].stage = s
      BY <1>a, <2>1 DEF Attempts, InFlight
    <2>3. BridgeTypeOK'
      <3>1. timer' \in BOOLEAN /\ verified' \in BOOLEAN
        BY <1>7 DEF ProbeAnswers, Schedule, BridgeInv, BridgeTypeOK
      <3>2. active' \in TargetIds /\ emitted' \in {"none", "error"}
        BY <1>7, <1>b DEF ProbeAnswers, BridgeInv, BridgeTypeOK
      <3> QED BY <1>7, <2>2, <3>1, <3>2 DEF ProbeAnswers, BridgeTypeOK, BridgeInv
    <2>4. HeldByCurrent'
      BY <2>0, <2>2 DEF HeldByCurrent, BridgeInv, At, Current
    <2>5. NeverStranded'
      <3>1. CASE attempts' = Ended(a) /\ Schedule /\ UNCHANGED down
        BY <3>1 DEF NeverStranded, Schedule, BridgeInv, BridgeTypeOK
      <3>2. CASE Moves(a, "fetching")
        BY <1>a, <2>0, <3>2 DEF NeverStranded, Moves, InFlight
      <3> QED BY <1>7, <3>1, <3>2 DEF ProbeAnswers
    <2> QED BY <2>3, <2>4, <2>5 DEF BridgeInv
  <1>8. ASSUME NEW a \in Calls, Fails(a) PROVE BridgeInv'
    BY <1>8, CaughtInv DEF Fails
  <1>9. ASSUME NEW a \in Calls, NEW pages \in SUBSET Targets, FetchAnswers(a, pages)
        PROVE  BridgeInv'
    <2>1. CASE Caught(a)
      BY <1>9, <2>1, CaughtInv DEF FetchAnswers
    <2>2. ASSUME NEW t \in Resolved(a, pages),
                 attempts' = [attempts EXCEPT ![a].stage = "connecting", ![a].target = t],
                 client' = a, emitted' = "none", UNCHANGED <<open, timer>>
          PROVE  BridgeInv'
      <3>1. t \in TargetIds
        BY <1>b DEF Resolved, Remaps
      <3>2. /\ attempts' \in [Calls -> Attempts]
            /\ \A b \in Calls : b # a => attempts'[b] = attempts[b]
            /\ attempts'[a].stage = "connecting"
        BY <1>a, <2>2, <3>1 DEF Attempts, InFlight
      <3>3. a = connectGen /\ connectGen' = connectGen /\ open = {} /\ open' = {} /\ client = 0
        <4>1. a = connectGen /\ At(a, "fetching") /\ connectGen' = connectGen /\ open' = open
          BY <1>9, <2>2 DEF FetchAnswers, Current
        <4>2. client = 0
          BY <4>1 DEF BridgeInv, HeldByCurrent, Current
        <4>3. open = {}
          BY <4>2 DEF BridgeInv, BridgeTypeOK, HeldByCurrent, Calls
        <4> QED BY <4>1, <4>2, <4>3
      <3>4. BridgeTypeOK'
        <4>1. client' \in 0..MaxConnects
          BY <1>a, <2>2, <3>3
        <4> QED BY <1>9, <2>2, <3>2, <4>1 DEF FetchAnswers, BridgeTypeOK, BridgeInv
      <3>5. HeldByCurrent'
        <4>1. \A b \in Calls : b # 0
          BY DEF Calls
        <4> QED BY <2>2, <3>2, <3>3, <4>1 DEF HeldByCurrent, BridgeInv, At, Current
      <3>6. NeverStranded'
        BY <3>2, <3>3 DEF NeverStranded, InFlight
      <3> QED BY <3>4, <3>5, <3>6 DEF BridgeInv
    <2> QED BY <1>9, <2>1, <2>2 DEF FetchAnswers
  <1>10. ASSUME NEW a \in Calls, SocketOpens(a) PROVE BridgeInv'
    <2>1. a = client /\ a = connectGen /\ client' = a /\ connectGen' = connectGen /\ open' = {a}
      BY <1>10 DEF SocketOpens, BridgeInv, HeldByCurrent, At, Current
    <2>2. /\ attempts' \in [Calls -> Attempts]
          /\ \A b \in Calls : b # a => attempts'[b] = attempts[b]
          /\ attempts'[a].stage = "reading" /\ attempts'[a].target = attempts[a].target
          /\ attempts[a].target \in TargetIds
      BY <1>10, <1>a DEF SocketOpens, Moves, Attempts, InFlight
    <2>3. generation' \in [Targets -> Nat]
      <3>1. generation' = [generation EXCEPT ![attempts[a].target] = @ + 1]
        BY <1>10 DEF SocketOpens
      <3>2. generation \in [Targets -> Nat]
        BY DEF BridgeInv, BridgeTypeOK
      <3>3. \A n \in Nat : n + 1 \in Nat
        OBVIOUS
      <3>4. CASE attempts[a].target \in Targets
        <4> DEFINE n == generation[attempts[a].target] + 1
        <4>1. n \in Nat
          BY <3>2, <3>3, <3>4
        <4>2. generation' = [generation EXCEPT ![attempts[a].target] = n]
          BY <3>1
        <4> HIDE DEF n
        <4> QED BY <3>2, <4>1, <4>2
      <3>5. CASE attempts[a].target \notin Targets
        BY <3>1, <3>2, <3>5
      <3> QED BY <3>4, <3>5
    <2>4. BridgeTypeOK'
      BY <1>10, <2>1, <2>2, <2>3 DEF SocketOpens, BridgeTypeOK, BridgeInv
    <2>5. HeldByCurrent'
      BY <1>10, <2>1, <2>2 DEF SocketOpens, HeldByCurrent, BridgeInv, At, Current
    <2>6. NeverStranded'
      BY <2>1 DEF NeverStranded
    <2> QED BY <2>4, <2>5, <2>6 DEF BridgeInv
  <1>11. ASSUME NEW a \in Calls, ReadAnswers(a) PROVE BridgeInv'
    <2>1. a \in open /\ a = client
      BY <1>11 DEF ReadAnswers, BridgeInv, HeldByCurrent, At, Current
    <2>2. /\ attempts' \in [Calls -> Attempts]
          /\ \A b \in Calls : b # a => attempts'[b] = attempts[b]
          /\ attempts'[a].stage = "done" /\ attempts'[a].target = attempts[a].target
      BY <1>11, <1>a DEF ReadAnswers, Ended, Attempts
    <2>3. BridgeTypeOK'
      BY <1>11, <2>2 DEF ReadAnswers, BridgeTypeOK, BridgeInv
    <2>4. HeldByCurrent'
      BY <1>11, <2>1, <2>2 DEF ReadAnswers, HeldByCurrent, BridgeInv, At, Current, BridgeTypeOK
    <2>5. NeverStranded'
      BY <1>11, <2>1 DEF ReadAnswers, NeverStranded
    <2> QED BY <2>3, <2>4, <2>5 DEF BridgeInv
  <1>12. CASE UNCHANGED bridgeVars
    BY <1>12 DEF bridgeVars, BridgeInv, BridgeTypeOK, HeldByCurrent, NeverStranded, At, Current
  <1> QED
    BY <1>1, <1>2, <1>3, <1>4, <1>5, <1>6, <1>7, <1>8, <1>9, <1>10, <1>11, <1>12
    DEF BridgeNext

----------------------------------------------------------------------------
LEMMA BridgeInvHolds == BridgeSpec => []BridgeInv
  BY InitInv, NextInv, PTL DEF BridgeSpec

(* The server's steps are the bridge's, or leave the bridge alone. *)
LEMMA WiringIsABridge == Spec => BridgeSpec
  <1>1. Init => BridgeInit
    BY DEF Init
  <1>2. [Next]_vars => [BridgeNext]_bridgeVars
    <2> SUFFICES ASSUME [Next]_vars, ~(UNCHANGED bridgeVars) PROVE BridgeNext
      OBVIOUS
    <2>1. CASE Bridge
      BY <2>1 DEF Bridge
    <2>2. CASE Probe
      BY <2>2 DEF Probe, SignatureAnswers, SignatureFails, ProbeTick, PassiveAnswers,
         PassiveFails, Discover, Discovered, Extracted, Quiet, bridgeVars
    <2> QED BY <2>1, <2>2 DEF Next, vars
  <1> QED BY <1>1, <1>2, PTL DEF Spec, BridgeSpec

(***************************************************************************)
(* However calls of connect() overtake each other and wherever they fail,  *)
(* a server that is not stopping has a connection, a call under way or a   *)
(* reconnect scheduled.                                                    *)
(***************************************************************************)
THEOREM BridgeNeverStranded == Spec => []NeverStranded
  <1>1. BridgeInv => NeverStranded
    BY DEF BridgeInv
  <1> QED BY <1>1, BridgeInvHolds, WiringIsABridge, PTL

(***************************************************************************)
(* The bridge holds every socket it has opened, and the page of an open    *)
(* one is the active target.                                               *)
(***************************************************************************)
THEOREM BridgeLeaksNoSocket == Spec => []NoSocketIsLeaked
  <1>1. BridgeInv => NoSocketIsLeaked
    BY DEF BridgeInv, HeldByCurrent, NoSocketIsLeaked, Sockets
  <1> QED BY <1>1, BridgeInvHolds, WiringIsABridge, PTL
----------------------------------------------------------------------------
(***************************************************************************)
(* What the bridge guarantees its listeners: a reconnect is scheduled only *)
(* where nothing is connected or on its way, a socket has a target, and an *)
(* established connection lasts until its end is announced.                *)
(***************************************************************************)
TimerWaits == timer => client = 0 /\ \A a \in Calls : Current(a) => At(a, "done")

HasTarget ==
    \A a \in Calls : a \in open \/ At(a, "connecting") \/ At(a, "reading")
                        => attempts[a].target \in Targets

BridgeFacts == BridgeInv /\ TimerWaits /\ HasTarget

LEMMA BridgeFactsInit == BridgeInit => BridgeFacts
  <1> SUFFICES ASSUME BridgeInit PROVE TimerWaits /\ HasTarget
    BY InitInv DEF BridgeFacts
  <1> QED BY DEF BridgeInit, TimerWaits, HasTarget, At, NoAttempt

(* A call that begins clears the timer and leaves no socket. *)
LEMMA BeginFacts ==
    ASSUME BridgeInv, NEW wanted, NEW required, Begin(wanted, required)
    PROVE  TimerWaits' /\ HasTarget'
  <1>1. timer' = FALSE /\ open' = {}
    BY DEF Begin, DetachClient, BridgeInv, HeldByCurrent
  <1>2. \A a \in Calls : attempts'[a].stage \notin {"connecting", "reading"}
    <2> DEFINE new == [NoAttempt EXCEPT !.stage = "probing", !.wanted = wanted,
                                        !.required = required]
    <2>1. new.stage = "probing"
      BY DEF NoAttempt
    <2>2. attempts' = [Detached(attempts) EXCEPT ![connectGen + 1] = new]
      BY DEF Begin
    <2> HIDE DEF new
    <2> QED BY <2>1, <2>2, DetachedType
  <1> QED BY <1>1, <1>2 DEF TimerWaits, HasTarget, At

(* So does one that is caught, and the timer it sets has nothing to overtake. *)
LEMMA CaughtFacts ==
    ASSUME BridgeInv, NEW a \in Calls, Current(a), Caught(a), connectGen' = connectGen
    PROVE  TimerWaits' /\ HasTarget'
  <1>1. client' = 0 /\ open' = {}
    BY DEF Caught, DetachClient, BridgeInv, HeldByCurrent
  <1>2. attempts' = [Detached(attempts) EXCEPT ![a].stage = "done"]
    BY DEF Caught
  <1>3. /\ \A b \in Calls : attempts'[b].stage \notin {"connecting", "reading"}
        /\ attempts'[a].stage = "done"
    BY <1>2, DetachedType DEF Attempts
  <1> QED BY <1>1, <1>3 DEF TimerWaits, HasTarget, At, Current

LEMMA BridgeFactsStep == BridgeFacts /\ [BridgeNext]_bridgeVars => BridgeFacts'
  <1> SUFFICES ASSUME BridgeFacts, [BridgeNext]_bridgeVars PROVE TimerWaits' /\ HasTarget'
    BY NextInv DEF BridgeFacts
  <1>a. BridgeInv /\ attempts \in [Calls -> Attempts]
    BY DEF BridgeFacts, BridgeInv, BridgeTypeOK
  <1>1. CASE FirstConnect \/ TimerFires \/ (\E t \in Targets : SwitchWindow(t))
    BY <1>a, <1>1, BeginFacts DEF FirstConnect, TimerFires, SwitchWindow
  <1>2. CASE Disconnect
    <2>1. timer' = FALSE /\ open' = {}
      BY <1>a, <1>2 DEF Disconnect, DetachClient, BridgeInv, HeldByCurrent
    <2>2. \A a \in Calls : attempts'[a].stage \notin InFlight
      BY <1>a, <1>2, DetachedType DEF Disconnect, Attempts, InFlight
    <2> QED BY <2>1, <2>2 DEF TimerWaits, HasTarget, At, InFlight
  <1>3. CASE SocketCloses
    <2>1. client \in Calls /\ client = connectGen /\ client' = 0 /\ open' = {}
      BY <1>a, <1>3 DEF SocketCloses, DetachClient, BridgeInv, BridgeTypeOK, HeldByCurrent, Calls
    <2>2. attempts' = [attempts EXCEPT ![client].stage = "done"] /\ connectGen' = connectGen
      BY <1>3 DEF SocketCloses, Ended
    <2>3. /\ \A a \in Calls : attempts'[a].stage \notin {"connecting", "reading"}
          /\ attempts'[client].stage = "done"
      BY <1>a, <2>1, <2>2 DEF BridgeInv, HeldByCurrent, At, Attempts
    <2> QED BY <2>1, <2>2, <2>3 DEF TimerWaits, HasTarget, At, Current
  <1>4. ASSUME NEW a \in Calls, NEW s \in {"probing", "fetching"}, Superseded(a, s)
        PROVE  TimerWaits' /\ HasTarget'
    <2>1. /\ attempts' = [attempts EXCEPT ![a].stage = "done"] /\ ~Current(a)
          /\ UNCHANGED <<timer, client, open, connectGen>>
      BY <1>4 DEF Superseded, Ended
    <2>2. \A b \in Calls : /\ attempts'[b].target = attempts[b].target
                           /\ attempts'[b].stage = IF b = a THEN "done" ELSE attempts[b].stage
      BY <1>a, <2>1 DEF Attempts
    <2> QED BY <2>1, <2>2 DEF BridgeFacts, TimerWaits, HasTarget, At, Current
  <1>5. ASSUME NEW a \in Calls, ProbeAnswers(a) PROVE TimerWaits' /\ HasTarget'
    <2>1. /\ client = 0 /\ client' = 0 /\ open = {} /\ open' = {} /\ connectGen' = connectGen
          /\ Current(a) /\ ~timer
      BY <1>a, <1>5 DEF ProbeAnswers, BridgeInv, HeldByCurrent, At, Current, BridgeTypeOK,
         Calls, BridgeFacts, TimerWaits
    <2>2. PICK s \in {"fetching", "done"} : /\ attempts' = [attempts EXCEPT ![a].stage = s]
                                            /\ s = "done" \/ timer' = timer
      BY <1>5 DEF ProbeAnswers, Moves, Ended
    <2>3. /\ \A b \in Calls : b # a => attempts'[b] = attempts[b]
          /\ attempts'[a].stage = s
      BY <1>a, <2>2 DEF Attempts
    <2> QED BY <2>1, <2>2, <2>3 DEF BridgeFacts, TimerWaits, HasTarget, At, Current
  <1>6. ASSUME NEW a \in Calls, Fails(a) PROVE TimerWaits' /\ HasTarget'
    BY <1>a, <1>6, CaughtFacts DEF Fails
  <1>7. ASSUME NEW a \in Calls, NEW pages \in SUBSET Targets, FetchAnswers(a, pages)
        PROVE  TimerWaits' /\ HasTarget'
    <2>1. CASE Caught(a)
      BY <1>a, <1>7, <2>1, CaughtFacts DEF FetchAnswers
    <2>2. ASSUME NEW t \in Resolved(a, pages),
                 attempts' = [attempts EXCEPT ![a].stage = "connecting", ![a].target = t],
                 UNCHANGED <<open, timer>>
          PROVE  TimerWaits' /\ HasTarget'
      <3>1. t \in Targets
        BY DEF Resolved, Remaps
      <3>2. \A b \in Calls : b # a => attempts'[b] = attempts[b]
        BY <1>a, <2>2
      <3>3. attempts'[a].target = t
        BY <1>a, <2>2 DEF Attempts
      <3>4. ~timer
        BY <1>7 DEF FetchAnswers, At, BridgeFacts, TimerWaits
      <3> QED BY <2>2, <3>1, <3>2, <3>3, <3>4 DEF BridgeFacts, TimerWaits, HasTarget, At
    <2> QED BY <1>7, <2>1, <2>2 DEF FetchAnswers
  <1>8. ASSUME NEW a \in Calls, SocketOpens(a) \/ ReadAnswers(a) PROVE TimerWaits' /\ HasTarget'
    <2>1. /\ At(a, "connecting") \/ At(a, "reading")
          /\ a = client /\ timer' = timer /\ client # 0
          /\ open' \subseteq open \cup {a}
      BY <1>a, <1>8 DEF SocketOpens, ReadAnswers, BridgeInv, HeldByCurrent, At, Calls
    <2>2. PICK s \in {"reading", "done"} : attempts' = [attempts EXCEPT ![a].stage = s]
      BY <1>8 DEF SocketOpens, ReadAnswers, Moves, Ended
    <2>3. /\ \A b \in Calls : b # a => attempts'[b] = attempts[b]
          /\ attempts'[a].target = attempts[a].target
      BY <1>a, <2>2 DEF Attempts
    <2> QED BY <2>1, <2>2, <2>3 DEF BridgeFacts, TimerWaits, HasTarget, At
  <1>9. CASE UNCHANGED bridgeVars
    BY <1>9 DEF bridgeVars, BridgeFacts, TimerWaits, HasTarget, At, Current
  <1> QED BY <1>1, <1>2, <1>3, <1>4, <1>5, <1>6, <1>7, <1>8, <1>9 DEF BridgeNext

(* The client the bridge holds, its page read. *)
Established(a) == a \in Calls /\ a = client /\ a \in open /\ At(a, "done")

(***************************************************************************)
(* An established connection stays as it is, unless the step announces its *)
(* end or the server stops.                                                *)
(***************************************************************************)
LEMMA EstablishedLasts ==
    ASSUME BridgeFacts, BridgeNext, NEW a, Established(a)
    PROVE  \/ emitted' \in {"disconnected", "lost_then_connected"}
           \/ emitted' = "none" /\ down'
           \/ /\ emitted' \in {"none", "error"}
              /\ Established(a)' /\ UNCHANGED <<active, generation>>
  <1>1. /\ a \in Calls /\ a = client /\ a \in open /\ At(a, "done") /\ ~timer
        /\ a = connectGen /\ connectGen # 0 /\ client # 0
    BY DEF Established, BridgeFacts, TimerWaits, BridgeInv, HeldByCurrent, Calls
  <1>2. ~FirstConnect /\ ~TimerFires
    BY <1>1 DEF FirstConnect, TimerFires
  <1>3. \A b \in Calls : Current(b) => b = a
    BY <1>1 DEF Current
  <1>4. ASSUME NEW b \in Calls
        PROVE  /\ ~ProbeAnswers(b) /\ ~Fails(b) /\ ~SocketOpens(b) /\ ~ReadAnswers(b)
               /\ \A pages \in SUBSET Targets : ~FetchAnswers(b, pages)
    BY <1>1, <1>3 DEF ProbeAnswers, Fails, SocketOpens, ReadAnswers, FetchAnswers, At
  <1>5. ASSUME NEW b \in Calls, NEW s \in {"probing", "fetching"}, Superseded(b, s)
        PROVE  /\ emitted' \in {"none", "error"}
               /\ Established(a)' /\ UNCHANGED <<active, generation>>
    <2>1. b # a /\ attempts' = [attempts EXCEPT ![b].stage = "done"]
      BY <1>1, <1>5 DEF Superseded, Current, Ended
    <2>2. attempts'[a] = attempts[a]
      BY <1>1, <2>1 DEF BridgeFacts, BridgeInv, BridgeTypeOK
    <2> QED BY <1>1, <1>5, <2>2 DEF Superseded, Established, At
  <1>6. Disconnect => emitted' = "none" /\ down'
    BY DEF Disconnect
  <1>7. SocketCloses \/ (\E t \in Targets : SwitchWindow(t))
           => emitted' \in {"disconnected", "lost_then_connected"}
    BY DEF SocketCloses, SwitchWindow
  <1> QED BY <1>2, <1>4, <1>5, <1>6, <1>7 DEF BridgeNext

(* A connection is announced for an established client, on the active target. *)
LEMMA ConnectedIsEstablished ==
    ASSUME BridgeFacts, BridgeNext, emitted' = "connected"
    PROVE  /\ Established(client)' /\ client' \in Calls /\ client' # 0
           /\ active' = attempts[client].target /\ active' = active
           /\ active \in Targets /\ generation' = generation
           /\ \A a : ~Established(a)
  <1>1. PICK a \in Calls : ReadAnswers(a)
    BY DEF BridgeNext, FirstConnect, TimerFires, SwitchWindow, Disconnect, SocketCloses,
       Superseded, ProbeAnswers, Fails, Caught, FetchAnswers, SocketOpens
  <1>2. a = client /\ a \in open /\ At(a, "reading")
    BY <1>1 DEF ReadAnswers, BridgeFacts, BridgeInv, HeldByCurrent
  <1>3. attempts' = [attempts EXCEPT ![a].stage = "done"]
    BY <1>1 DEF ReadAnswers, Ended
  <1>4. attempts'[a].stage = "done"
    BY <1>3 DEF BridgeFacts, BridgeInv, BridgeTypeOK, Attempts
  <1>5. active = attempts[a].target /\ active \in Targets /\ a # 0
    BY <1>2 DEF BridgeFacts, BridgeInv, HeldByCurrent, HasTarget, Calls
  <1> QED BY <1>1, <1>2, <1>4, <1>5 DEF ReadAnswers, Established, At

----------------------------------------------------------------------------
(***************************************************************************)
(* A record is verified when what it lets be written was read whole in its *)
(* generation: a complete catalogue, or any live state after a reconnect.  *)
(***************************************************************************)
Verified(r) ==
    /\ r \in Records
    /\ r.models.completeness = "complete" => r.whole = r.gen
    /\ r.gen # r.since /\ r.state # "stale" => r.whole = r.gen

LEMMA NewIsVerified == ASSUME NEW g \in Nat PROVE Verified(NewRecord(g)) /\ NewRecord(g).gen = g
  BY DEF Verified, NewRecord, NoRecord, NoModels, Records, Models, States, Completeness

LEMMA TransitionVerifies ==
    ASSUME NEW r, Verified(r), NEW g \in Nat
    PROVE  /\ Verified(TransitionGeneration(r, g)) /\ TransitionGeneration(r, g).gen = g
           /\ TransitionGeneration(r, g).models.completeness = "unknown"
  <1> DEFINE models == [r.models EXCEPT !.completeness = "unknown"]
             new == [r EXCEPT !.gen = g, !.state = "stale", !.models = models]
  <1>1. r \in Records /\ models \in Models /\ models.completeness = "unknown"
    BY DEF Verified, Records, Models, Completeness
  <1>2. TransitionGeneration(r, g) = new
    BY <1>1 DEF TransitionGeneration, Records, Models
  <1> HIDE DEF models
  <1>3. new \in Records /\ new.gen = g /\ new.state = "stale" /\ new.models = models
    BY <1>1 DEF Records, States
  <1> HIDE DEF new
  <1> QED BY <1>1, <1>2, <1>3 DEF Verified

(* Merging yields a complete catalogue only from one. *)
LEMMA MergedModels ==
    ASSUME NEW old \in Models, NEW seen \in Models
    PROVE  /\ MergeModels(old, seen) \in Models
           /\ MergeModels(old, seen).completeness = "complete"
                  => "complete" \in {old.completeness, seen.completeness}
  BY DEF MergeModels, Models

(* What is observed of a generation keeps a record verified. *)
LEMMA ObserveVerifies ==
    ASSUME NEW r, Verified(r), NEW g \in Nat, NEW state \in States, NEW models \in Models
    PROVE  /\ Verified(Observe(r, g, state, models))
           /\ Observe(r, g, state, models).gen = IF g < r.gen THEN r.gen ELSE g
  <1> DEFINE now == IF r.gen = 0 THEN NewRecord(g)
                    ELSE IF g > r.gen THEN TransitionGeneration(r, g) ELSE r
             merged == MergeModels(now.models, models)
             live == IF now.state = "stale" /\ merged.completeness # "complete"
                     THEN "stale" ELSE state
             whole == IF models.completeness = "complete" THEN g ELSE now.whole
             new == [now EXCEPT !.state = live, !.models = merged, !.whole = whole]
  <1>1. r \in Records /\ r.gen \in Nat
    BY DEF Verified, Records
  <1>2. CASE g < r.gen
    BY <1>2 DEF Observe
  <1>3. CASE ~(g < r.gen)
    <2>1. Verified(now) /\ now.gen = g
      <3>1. CASE r.gen = 0
        BY <3>1, NewIsVerified
      <3>2. CASE r.gen # 0 /\ g > r.gen
        BY <3>2, TransitionVerifies
      <3>3. CASE r.gen # 0 /\ ~(g > r.gen)
        BY <1>1, <1>3, <3>3
      <3> QED BY <3>1, <3>2, <3>3
    <2>2. Observe(r, g, state, models) = new
      BY <1>3 DEF Observe
    <2> HIDE DEF now
    <2>3. now \in Records /\ now.models \in Models /\ now.whole \in Nat /\ now.since \in Nat
      BY <2>1 DEF Verified, Records
    <2>4. merged \in Models
          /\ (merged.completeness = "complete" => "complete" \in {now.models.completeness, models.completeness})
      BY <2>3, MergedModels
    <2>5. live \in States /\ whole \in Nat
      BY <2>3 DEF States
    <2>6. merged.completeness = "complete" => whole = g
      BY <2>1, <2>4 DEF Verified
    <2>7. g # now.since /\ live # "stale" => whole = g
      BY <2>1, <2>6 DEF Verified
    <2> HIDE DEF merged, live, whole
    <2>8. /\ new \in Records /\ new.gen = g /\ new.since = now.since
          /\ new.models = merged /\ new.state = live /\ new.whole = whole
      BY <2>1, <2>3, <2>4, <2>5 DEF Records
    <2> HIDE DEF new
    <2>9. Verified(new) /\ new.gen = g
      BY <2>6, <2>7, <2>8 DEF Verified
    <2> QED BY <1>3, <2>2, <2>9
  <1> QED BY <1>2, <1>3

LEMMA ObserveStateVerifies ==
    ASSUME NEW r, Verified(r), NEW g \in Nat, NEW state \in States
    PROVE  /\ Verified(ObserveState(r, g, state))
           /\ ObserveState(r, g, state).gen = IF g < r.gen THEN r.gen ELSE g
  <1>1. r.models \in Models
    BY DEF Verified, Records
  <1> QED BY <1>1, ObserveVerifies DEF ObserveState

LEMMA MarkStaleVerifies ==
    ASSUME NEW r, Verified(r)
    PROVE  Verified(MarkStale(r)) /\ MarkStale(r).gen = r.gen
  BY DEF MarkStale, Verified, Records, States

LEMMA ActivateVerifies ==
    ASSUME NEW r, Verified(r), NEW g \in Nat
    PROVE  Verified(SetActiveTarget(r, g)) /\ SetActiveTarget(r, g).gen = g
  <1>1. CASE r.gen = 0
    BY <1>1, NewIsVerified DEF SetActiveTarget
  <1>2. CASE r.gen # 0 /\ r.gen # g
    BY <1>2, TransitionVerifies DEF SetActiveTarget
  <1>3. CASE r.gen # 0 /\ r.gen = g
    BY <1>3 DEF SetActiveTarget
  <1> QED BY <1>1, <1>2, <1>3

----------------------------------------------------------------------------
(***************************************************************************)
(* The inductive invariant of the wiring: what the executor acts on, and   *)
(* what the connected handler will give it, is the established connection, *)
(* known to the lanes and the records in its generation.                   *)
(***************************************************************************)
Held(a) ==
    /\ Established(a)
    /\ shown
    /\ lane[active] = generation[active]
    /\ capActive = active
    /\ caps[active].gen = generation[active]

AllVerified(records) ==
    records \in [Targets -> Records] /\ \A t \in Targets : Verified(records[t])

WiringInv ==
    /\ BridgeFacts
    /\ lane \in [Targets -> Nat]
    /\ capActive \in TargetIds
    /\ AllVerified(caps)
    /\ executor # 0 => Held(executor)
    /\ handler # 0 => Held(handler)

LEMMA GenerationsAreNumbers ==
    ASSUME BridgeFacts PROVE generation \in [Targets -> Nat]
  BY DEF BridgeFacts, BridgeInv, BridgeTypeOK

(* One record replaced by a verified one. *)
LEMMA ReplaceVerified ==
    ASSUME NEW records, AllVerified(records), NEW t \in Targets, NEW r, Verified(r)
    PROVE  AllVerified([records EXCEPT ![t] = r])
  BY DEF AllVerified, Verified

LEMMA EstablishedTarget ==
    ASSUME BridgeFacts, NEW a, Established(a)
    PROVE  active = attempts[a].target /\ active \in Targets
  BY DEF BridgeFacts, BridgeInv, HeldByCurrent, HasTarget, Established

LEMMA RejectedVerifies ==
    ASSUME WiringInv, NEW records, AllVerified(records)
    PROVE  AllVerified(Rejected(records))
  <1>1. CASE handler = 0
    BY <1>1 DEF Rejected
  <1>2. CASE handler # 0
    <2> DEFINE t == attempts[handler].target
               r == ObserveState(records[t], generation[t], "unavailable")
    <2>1. t \in Targets /\ generation[t] \in Nat
      BY <1>2, EstablishedTarget, GenerationsAreNumbers DEF WiringInv, Held
    <2>2. Verified(r)
      BY <2>1, ObserveStateVerifies DEF AllVerified, States
    <2>3. Rejected(records) = [records EXCEPT ![t] = r]
      BY <1>2 DEF Rejected
    <2> HIDE DEF r, t
    <2>4. AllVerified([records EXCEPT ![t] = r])
      BY <2>1, <2>2, ReplaceVerified
    <2> QED BY <2>3, <2>4, Zenon
  <1> QED BY <1>1, <1>2

LEMMA WiringInit == Init => WiringInv
  <1> SUFFICES ASSUME Init PROVE WiringInv
    OBVIOUS
  <1>1. BridgeFacts
    BY BridgeFactsInit DEF Init
  <1>2. NoRecord \in Records /\ Verified(NoRecord)
    BY DEF NoRecord, NoModels, Records, Models, States, Completeness, Verified
  <1>3. AllVerified(caps)
    BY <1>2 DEF Init, AllVerified
  <1>4. lane \in [Targets -> Nat] /\ capActive \in TargetIds /\ executor = 0 /\ handler = 0
    BY DEF Init, TargetIds
  <1> QED BY <1>1, <1>3, <1>4 DEF WiringInv

(* What the listeners do keeps the invariant. *)
LEMMA LetGoInv ==
    ASSUME WiringInv, BridgeFacts', LetGo
    PROVE  WiringInv'
  <1> DEFINE stale == IF capActive = NoTarget THEN caps
                      ELSE [caps EXCEPT ![capActive] = MarkStale(@)]
  <1>1. AllVerified(stale)
    <2>1. CASE capActive = NoTarget
      BY <2>1 DEF WiringInv
    <2>2. CASE capActive # NoTarget
      <3>1. capActive \in Targets /\ Verified(MarkStale(caps[capActive]))
        BY <2>2, MarkStaleVerifies DEF WiringInv, AllVerified, TargetIds
      <3>2. stale = [caps EXCEPT ![capActive] = MarkStale(caps[capActive])]
        BY <2>2
      <3> QED BY <3>1, <3>2, ReplaceVerified DEF WiringInv
    <2> QED BY <2>1, <2>2
  <1>2. caps' = Rejected(stale) /\ executor' = 0 /\ handler' = 0
        /\ lane' = lane /\ capActive' = capActive
    BY DEF LetGo
  <1> HIDE DEF stale
  <1>3. AllVerified(caps')
    BY <1>1, <1>2, RejectedVerifies
  <1> QED BY <1>2, <1>3 DEF WiringInv, AllVerified

LEMMA OnConnectedInv ==
    ASSUME WiringInv, BridgeFacts', BridgeNext, emitted' = "connected", OnConnected
    PROVE  WiringInv'
  <1>1. /\ Established(client)' /\ active' \in Targets /\ active' = active
        /\ generation' = generation /\ \A a : ~Established(a)
    BY ConnectedIsEstablished DEF WiringInv
  <1>2. executor' = 0
    BY <1>1 DEF OnConnected, WiringInv, Held
  <1> DEFINE t == active'
             r == SetActiveTarget(caps[t], generation[t])
  <1>3. Verified(r) /\ r.gen = generation[t] /\ generation[t] \in Nat
    BY <1>1, ActivateVerifies, GenerationsAreNumbers DEF WiringInv, AllVerified
  <1>4. caps' = [caps EXCEPT ![t] = r]
    BY <1>1 DEF OnConnected
  <1> HIDE DEF r
  <1>5. AllVerified(caps')
    BY <1>1, <1>3, <1>4, ReplaceVerified DEF WiringInv
  <1>6. caps'[t].gen = generation'[t]
    BY <1>1, <1>3, <1>4 DEF WiringInv, AllVerified
  <1>7. lane' = [lane EXCEPT ![t] = generation[t]]
    BY <1>1 DEF OnConnected
  <1>8. lane' \in [Targets -> Nat] /\ lane'[t] = generation'[t]
    BY <1>1, <1>3, <1>7 DEF WiringInv
  <1>9. Held(client)'
    BY <1>1, <1>6, <1>8 DEF OnConnected, Held
  <1> QED BY <1>1, <1>2, <1>5, <1>8, <1>9 DEF OnConnected, WiringInv, TargetIds, AllVerified

LEMMA BridgeStepInv == ASSUME WiringInv, Bridge PROVE WiringInv'
  <1>1. BridgeFacts' /\ BridgeNext /\ Listen
    BY BridgeFactsStep DEF WiringInv, Bridge
  <1>2. CASE LetGo
    BY <1>1, <1>2, LetGoInv
  <1>3. CASE emitted' = "connected" /\ OnConnected
    BY <1>1, <1>3, OnConnectedInv
  <1>4. CASE emitted' \in {"none", "error"} /\ ~down' /\ UNCHANGED wiringVars
    <2>1. ASSUME NEW a, Held(a) PROVE Held(a)'
      <3>1. Established(a)' /\ UNCHANGED <<active, generation>>
        BY <1>1, <1>4, <2>1, EstablishedLasts DEF WiringInv, Held
      <3> QED BY <1>4, <2>1, <3>1 DEF Held, wiringVars
    <2> QED BY <1>1, <1>4, <2>1 DEF WiringInv, AllVerified, wiringVars
  <1>5. CASE /\ executor' = 0 /\ handler' = 0 /\ caps' = Rejected(caps)
             /\ UNCHANGED <<capActive, lane>>
    <2>1. AllVerified(caps')
      BY <1>5, RejectedVerifies DEF WiringInv
    <2> QED BY <1>1, <1>5, <2>1 DEF WiringInv, AllVerified
  <1> QED BY <1>1, <1>2, <1>3, <1>4, <1>5 DEF Listen

(* An answer about the active target is recorded for its generation. *)
LEMMA RecordInv ==
    ASSUME WiringInv, Quiet, active \in Targets,
           UNCHANGED <<shown, lane, capActive>>,
           executor' \in {0, executor, handler}, handler' \in {0, handler},
           \/ caps' = caps
           \/ \E state \in States, models \in Models : Record(state, models)
           \/ \E state \in States : RecordState(state)
    PROVE  WiringInv'
  <1> DEFINE g == generation[active]
             old == caps[active]
  <1>1. g \in Nat /\ Verified(old) /\ caps \in [Targets -> Records]
    BY GenerationsAreNumbers DEF WiringInv, AllVerified
  <1>2. PICK r : /\ caps' = [caps EXCEPT ![active] = r]
                 /\ Verified(r) /\ (old.gen = g => r.gen = g)
    <2>1. CASE caps' = caps
      BY <1>1, <2>1
    <2>2. ASSUME NEW state \in States, NEW models \in Models, Record(state, models)
          PROVE  \E r : /\ caps' = [caps EXCEPT ![active] = r]
                        /\ Verified(r) /\ (old.gen = g => r.gen = g)
      <3> DEFINE r == Observe(old, g, state, models)
      <3>1. Verified(r) /\ (old.gen = g => r.gen = g)
        BY <1>1, ObserveVerifies
      <3>2. caps' = [caps EXCEPT ![active] = r]
        BY <2>2 DEF Record
      <3> HIDE DEF r, old, g
      <3> QED BY <3>1, <3>2
    <2>3. ASSUME NEW state \in States, RecordState(state)
          PROVE  \E r : /\ caps' = [caps EXCEPT ![active] = r]
                        /\ Verified(r) /\ (old.gen = g => r.gen = g)
      <3> DEFINE r == ObserveState(old, g, state)
      <3>1. Verified(r) /\ (old.gen = g => r.gen = g)
        BY <1>1, ObserveStateVerifies
      <3>2. caps' = [caps EXCEPT ![active] = r]
        BY <2>3 DEF RecordState
      <3> HIDE DEF r, old, g
      <3> QED BY <3>1, <3>2
    <2> QED BY <2>1, <2>2, <2>3
  <1>3. AllVerified(caps')
    BY <1>2, ReplaceVerified DEF WiringInv
  <1>4. old.gen = g => caps'[active].gen = g
    BY <1>1, <1>2
  <1>5. ASSUME NEW a, Held(a) PROVE Held(a)'
    BY <1>4, <1>5 DEF Held, Established, At, Quiet, bridgeVars
  <1>6. BridgeFacts'
    BY BridgeFactsStep DEF WiringInv, Quiet
  <1> QED BY <1>3, <1>5, <1>6 DEF WiringInv, AllVerified

(* Probes run on an established client. *)
LEMMA FreshTarget ==
    ASSUME WiringInv, NEW a, Fresh(a) \/ Held(a) PROVE active \in Targets
  BY EstablishedTarget
  DEF Fresh, Held, WiringInv, BridgeFacts, BridgeInv, BridgeTypeOK, HasTarget

LEMMA ProbeStepInv == ASSUME WiringInv, Probe PROVE WiringInv'
  <1>1. CASE SignatureAnswers
    BY <1>1, FreshTarget, RecordInv DEF SignatureAnswers
  <1>2. CASE SignatureFails
    <2>1. AllVerified(caps')
      BY <1>2, RejectedVerifies DEF SignatureFails, WiringInv
    <2>2. BridgeFacts'
      BY <1>2, BridgeFactsStep DEF SignatureFails, WiringInv, Quiet
    <2> QED BY <1>2, <2>1, <2>2 DEF SignatureFails, WiringInv, AllVerified
  <1>3. CASE ProbeTick \/ Discover
    <2>1. BridgeFacts'
      BY <1>3, BridgeFactsStep DEF ProbeTick, Discover, WiringInv, Quiet
    <2>2. ASSUME NEW a, Held(a) PROVE Held(a)'
      BY <1>3, <2>2 DEF ProbeTick, Discover, Held, Established, At, Quiet, bridgeVars
    <2> QED BY <1>3, <2>1, <2>2 DEF ProbeTick, Discover, WiringInv, AllVerified
  <1>4. CASE PassiveAnswers
    <2>1. \A ready \in BOOLEAN : [NoModels EXCEPT !.items = ready] \in Models
      BY DEF NoModels, Models, Completeness
    <2>2. \/ RecordState("unavailable")
          \/ \E ready \in BOOLEAN :
                Record(IF ready THEN "ok" ELSE "unknown", [NoModels EXCEPT !.items = ready])
      BY <1>4 DEF PassiveAnswers
    <2>3. \/ \E state \in States, models \in Models : Record(state, models)
          \/ \E state \in States : RecordState(state)
      BY <2>1, <2>2 DEF States
    <2> QED BY <1>4, <2>3, FreshTarget, RecordInv DEF PassiveAnswers
  <1>5. CASE PassiveFails
    <2>1. \E state \in States : RecordState(state)
      BY <1>5 DEF PassiveFails, States
    <2> QED BY <1>5, <2>1, FreshTarget, RecordInv DEF PassiveFails
  <1>6. CASE Discovered
    <2>1. caps' = caps \/ \E state \in States, models \in Models : Record(state, models)
      BY <1>6 DEF Discovered, States, Models, Completeness
    <2> QED BY <1>6, <2>1, FreshTarget, RecordInv DEF Discovered
  <1>7. CASE Extracted
    <2>1. \E state \in States : RecordState(state)
      BY <1>7 DEF Extracted, States
    <2>2. active \in Targets
      BY <1>7, FreshTarget DEF Extracted, WiringInv
    <2> QED BY <1>7, <2>1, <2>2, RecordInv DEF Extracted
  <1> QED BY <1>1, <1>2, <1>3, <1>4, <1>5, <1>6, <1>7 DEF Probe

LEMMA WiringInvHolds == Spec => []WiringInv
  <1>1. WiringInv /\ [Next]_vars => WiringInv'
    <2> SUFFICES ASSUME WiringInv, [Next]_vars PROVE WiringInv'
      OBVIOUS
    <2>1. CASE UNCHANGED vars
      <3>1. BridgeFacts'
        BY <2>1, BridgeFactsStep DEF vars, WiringInv
      <3> QED BY <2>1, <3>1
              DEF vars, bridgeVars, wiringVars, WiringInv, Held, Established, At, AllVerified
    <2> QED BY <2>1, BridgeStepInv, ProbeStepInv DEF Next
  <1> QED BY <1>1, WiringInit, PTL DEF Spec

(***************************************************************************)
(* However the connection is lost, switched or replaced while the handler  *)
(* of the last one still waits for its page, the executor types into the   *)
(* page the bridge has open and active, in the current generation of its   *)
(* lane and its record, or into none.                                      *)
(***************************************************************************)
THEOREM ExecutorStaysOnTarget == Spec => []ExecutorActsOnTheActiveTarget
  <1>1. WiringInv => ExecutorActsOnTheActiveTarget
    <2> SUFFICES ASSUME WiringInv, executor # 0 PROVE ExecutorActsOnTheActiveTarget
      BY DEF ExecutorActsOnTheActiveTarget
    <2> QED BY EstablishedTarget DEF WiringInv, Held, Established, ExecutorActsOnTheActiveTarget
  <1> QED BY <1>1, WiringInvHolds, PTL

(***************************************************************************)
(* A catalogue kept over a reconnect lets nothing be written until it was  *)
(* read whole in the new generation, whatever probes and extractions say   *)
(* in between.                                                             *)
(***************************************************************************)
THEOREM KeptCatalogueIsReverified == Spec => []WritableIsReverified
  <1>1. WiringInv => WritableIsReverified
    BY DEF WiringInv, AllVerified, Verified, WritableIsReverified, Writable
  <1> QED BY <1>1, WiringInvHolds, PTL

=============================================================================
