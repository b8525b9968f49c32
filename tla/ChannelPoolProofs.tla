-------------------------- MODULE ChannelPoolProofs --------------------------
(***************************************************************************)
(* Proofs about ChannelPool, for any number of goroutines and sockets and  *)
(* every capacity.                                                         *)
(***************************************************************************)
EXTENDS ChannelPool, TLAPS

\* A goroutine has a connection exactly between Get and Put.
HoldsWhileUsing == \A p \in Procs : held[p] # None <=> pc[p] \in {"using", "unusable"}

\* The channel is closed only after the field was set to nil.
OverIsShut == /\ over => shut
              /\ \A p \in Procs : pc[p] = "close" => shut

\* An error that was noticed is one on a connection that is marked and still
\* in the hands of the goroutine that noticed it.
SeenIsMarked == \A x \in seen : \E p \in Procs : held[p] = x /\ pc[p] = "unusable"

\* The inductive invariant.
PoolInv ==
    /\ OneOwner
    /\ HoldsWhileUsing
    /\ OverIsShut
    /\ SeenIsMarked

-----------------------------------------------------------------------------
(* The channel's buffer and the hands of the goroutines *)

\* A connection that is sent joins the buffer at its end.
LEMMA Sent ==
    ASSUME conns \in Seq(Sockets), NEW x \in Sockets, conns' = Append(conns, x)
    PROVE  /\ conns' \in Seq(Sockets)
           /\ Buffered' = Buffered \cup {x}
           /\ BufferedOnce /\ x \notin Buffered => BufferedOnce'
<1>1. /\ conns' \in Seq(Sockets)
      /\ Len(conns') = Len(conns) + 1
      /\ \A i \in 1..Len(conns) : conns'[i] = conns[i]
      /\ conns'[Len(conns) + 1] = x
      /\ Len(conns) \in Nat
  OBVIOUS
<1>2. 1..Len(conns') = (1..Len(conns)) \cup {Len(conns) + 1}
  BY <1>1
<1>3. Buffered' = Buffered \cup {x}
  BY <1>1, <1>2 DEF Buffered
<1>4. ASSUME BufferedOnce, x \notin Buffered
      PROVE  BufferedOnce'
  BY <1>1, <1>2, <1>4 DEF BufferedOnce, Buffered
<1> QED
  BY <1>1, <1>3, <1>4

\* A connection that is received leaves the buffer.
LEMMA Received ==
    ASSUME conns \in Seq(Sockets), conns # << >>, BufferedOnce, conns' = Tail(conns)
    PROVE  /\ conns' \in Seq(Sockets)
           /\ Head(conns) \in Sockets
           /\ Head(conns) \in Buffered
           /\ Buffered' = Buffered \ {Head(conns)}
           /\ BufferedOnce'
<1>1. /\ conns' \in Seq(Sockets)
      /\ Len(conns) \in Nat \ {0}
      /\ Len(conns') = Len(conns) - 1
      /\ \A i \in 1..Len(conns') : conns'[i] = conns[i + 1]
      /\ Head(conns) = conns[1]
  OBVIOUS
<1>2. /\ Head(conns) \in Sockets
      /\ Head(conns) \in Buffered
  BY <1>1 DEF Buffered
<1>3. BufferedOnce'
  BY <1>1 DEF BufferedOnce
<1>4. ASSUME NEW x
      PROVE  x \in Buffered' <=> x \in Buffered /\ x # Head(conns)
  <2>1. ASSUME x \in Buffered'
        PROVE  x \in Buffered /\ x # Head(conns)
    <3>1. PICK i \in 1..Len(conns') : x = conns'[i]
      BY <2>1 DEF Buffered
    <3>2. i + 1 \in 1..Len(conns) /\ x = conns[i + 1] /\ i + 1 # 1 /\ 1 \in 1..Len(conns)
      BY <1>1, <3>1
    <3> QED
      BY <1>1, <3>2 DEF Buffered, BufferedOnce
  <2>2. ASSUME x \in Buffered, x # Head(conns)
        PROVE  x \in Buffered'
    <3>1. PICK i \in 1..Len(conns) : x = conns[i]
      BY <2>2 DEF Buffered
    <3>2. i - 1 \in 1..Len(conns') /\ x = conns'[i - 1]
      BY <1>1, <2>2, <3>1
    <3> QED
      BY <3>2 DEF Buffered
  <2> QED
    BY <2>1, <2>2
<1> QED
  BY <1>1, <1>2, <1>3, <1>4

\* A goroutine without a connection gets one that nobody has.
LEMMA Taken ==
    ASSUME held \in [Procs -> Sockets \cup {None}], HeldOnce,
           NEW p \in Procs, NEW x \in Sockets, held[p] = None, x \notin Held,
           held' = [held EXCEPT ![p] = x]
    PROVE  /\ held' \in [Procs -> Sockets \cup {None}]
           /\ HeldOnce'
           /\ Held' = Held \cup {x}
<1>1. x # None
  BY PoolAssumption
<1> QED
  BY <1>1 DEF Held, HeldOnce

\* A goroutine gives its connection away.
LEMMA Given ==
    ASSUME held \in [Procs -> Sockets \cup {None}], HeldOnce,
           NEW p \in Procs, held[p] # None, held' = [held EXCEPT ![p] = None]
    PROVE  /\ held' \in [Procs -> Sockets \cup {None}]
           /\ held[p] \in Sockets /\ held[p] \in Held
           /\ HeldOnce'
           /\ Held' = Held \ {held[p]}
  BY DEF Held, HeldOnce

\* Steps that make, close and move no connection.
LEMMA Kept ==
    ASSUME OneOwner, UNCHANGED <<conns, held, open>>, TypeOK'
    PROVE  OneOwner'
  BY DEF OneOwner, BufferedOnce, HeldOnce, Buffered, Held

-----------------------------------------------------------------------------
LEMMA PoolInit == Init => PoolInv
<1> SUFFICES ASSUME Init
             PROVE  PoolInv
  OBVIOUS
<1>1. TypeOK
  <2>1. << >> \in Seq(Sockets)
    OBVIOUS
  <2> QED
    BY <2>1, Zenon DEF Init, TypeOK, PcStates
<1>2. Buffered = {} /\ BufferedOnce
  BY DEF Init, Buffered, BufferedOnce
<1>3. Held = {} /\ HeldOnce
  BY DEF Init, Held, HeldOnce
<1>4. OneOwner
  BY <1>1, <1>2, <1>3 DEF OneOwner, Init
<1> QED
  BY <1>4 DEF Init, PoolInv, HoldsWhileUsing, OverIsShut, SeenIsMarked

\* One case per step of Next.
LEMMA PoolStep ==
    ASSUME PoolInv, [Next]_vars
    PROVE  PoolInv'
<1> USE DEF PoolInv
<1>1. ASSUME NEW x \in Sockets, Fill(x)
      PROVE  PoolInv'
  <2>1. x \notin Buffered
    BY <1>1 DEF OneOwner, Fill, Make
  <2>2. Held' = Held /\ HeldOnce'
    BY <1>1 DEF Fill, Held, HeldOnce, OneOwner
  <2>3. OneOwner'
    BY <1>1, <2>1, <2>2, Sent DEF OneOwner, TypeOK, Fill, Make
  <2> QED
    BY <1>1, <2>3 DEF Fill, Make, HoldsWhileUsing, OverIsShut, SeenIsMarked
<1>2. ASSUME NEW x \in Sockets, Break(x)
      PROVE  PoolInv'
  <2>1. TypeOK'
    BY <1>2 DEF Break, OneOwner, TypeOK
  <2> QED
    BY <1>2, <2>1, Kept DEF Break, HoldsWhileUsing, OverIsShut, SeenIsMarked
<1>3. CASE FillFail
  <2>1. Buffered' = {} /\ BufferedOnce' /\ conns' \in Seq(Sockets)
    BY <1>3 DEF FillFail, Buffered, BufferedOnce
  <2>2. Held' = Held /\ HeldOnce'
    BY <1>3 DEF FillFail, Held, HeldOnce, OneOwner
  <2>3. OneOwner'
    BY <1>3, <2>1, <2>2 DEF OneOwner, TypeOK, FillFail
  <2> QED
    BY <1>3, <2>3 DEF FillFail, HoldsWhileUsing, OverIsShut, SeenIsMarked
<1>4. CASE Filled
  BY <1>4 DEF Filled, OneOwner, TypeOK, BufferedOnce, HeldOnce, Buffered, Held,
              HoldsWhileUsing, OverIsShut, SeenIsMarked
<1>5. ASSUME NEW p \in Procs, GetConns(p) \/ CloseLock(p) \/ CloseChan(p) \/ Command(p)
      PROVE  PoolInv'
  <2>1. TypeOK'
    <3>1. pc' \in [Procs -> PcStates]
      BY <1>5 DEF GetConns, CloseLock, CloseChan, Command, Goto, OneOwner, TypeOK, PcStates
    <3>2. seen' \subseteq Sockets
      BY <1>5 DEF GetConns, CloseLock, CloseChan, Command, OneOwner, TypeOK
    <3> QED
      BY <1>5, <3>1, <3>2 DEF GetConns, CloseLock, CloseChan, Command, OneOwner, TypeOK
  <2>2. HoldsWhileUsing'
    <3>1. UNCHANGED held
      BY <1>5 DEF GetConns, CloseLock, CloseChan, Command
    <3>2. PICK s : /\ pc' = [pc EXCEPT ![p] = s]
                   /\ s \in {"using", "unusable"} <=> pc[p] \in {"using", "unusable"}
      BY <1>5 DEF GetConns, CloseLock, CloseChan, Command, Goto
    <3> QED
      BY <3>1, <3>2 DEF HoldsWhileUsing, OneOwner, TypeOK
  <2>4. OneOwner'
    BY <1>5, <2>1, Kept DEF GetConns, CloseLock, CloseChan, Command
  <2>5. OverIsShut'
    BY <1>5 DEF GetConns, CloseLock, CloseChan, Command, Goto, OneOwner, TypeOK, OverIsShut
  <2>3. SeenIsMarked'
    BY <1>5 DEF GetConns, CloseLock, CloseChan, Command, Goto, OneOwner, TypeOK, SeenIsMarked
  <2> QED
    BY <2>2, <2>3, <2>4, <2>5
<1>6. ASSUME NEW p \in Procs, Receive(p)
      PROVE  PoolInv'
  <2>1. CASE conns # << >>
    <3>1. Head(conns) \notin Held /\ held[p] = None
      BY <1>6, <2>1, Received DEF Receive, OneOwner, HoldsWhileUsing, TypeOK
    <3>4. /\ conns' \in Seq(Sockets) /\ Head(conns) \in Sockets /\ Head(conns) \in Buffered
          /\ Buffered' = Buffered \ {Head(conns)} /\ BufferedOnce'
      BY <1>6, <2>1, Received DEF Receive, OneOwner, TypeOK
    <3>5. /\ held' \in [Procs -> Sockets \cup {None}]
          /\ HeldOnce' /\ Held' = Held \cup {Head(conns)}
      BY <1>6, <2>1, <3>1, <3>4, Taken DEF Receive, OneOwner, TypeOK
    <3>2. OneOwner'
      BY <1>6, <2>1, <3>1, <3>4, <3>5 DEF Receive, Goto, OneOwner, TypeOK, PcStates
    <3>3. HoldsWhileUsing' /\ OverIsShut' /\ SeenIsMarked'
      BY <1>6, <2>1, <3>1, Received, PoolAssumption
         DEF Receive, Goto, OneOwner, TypeOK, HoldsWhileUsing, OverIsShut, SeenIsMarked
    <3> QED
      BY <3>2, <3>3
  <2>2. CASE conns = << >>
    <3>1. OneOwner'
      BY <1>6, <2>2 DEF Receive, Goto, OneOwner, TypeOK, PcStates, BufferedOnce, HeldOnce,
                        Buffered, Held
    <3>2. HoldsWhileUsing' /\ OverIsShut' /\ SeenIsMarked'
      BY <1>6, <2>2 DEF Receive, Goto, OneOwner, TypeOK, HoldsWhileUsing, OverIsShut, SeenIsMarked
    <3> QED
      BY <3>1, <3>2
  <2> QED
    BY <2>1, <2>2
<1>7. ASSUME NEW p \in Procs, CallFactory(p)
      PROVE  PoolInv'
  <2>0. Buffered' = Buffered /\ BufferedOnce'
    BY <1>7 DEF CallFactory, Buffered, BufferedOnce, OneOwner
  <2>1. ASSUME NEW x \in Sockets, Make(x), held' = [held EXCEPT ![p] = x], Goto(p, "using")
        PROVE  PoolInv'
    <3>1. x \notin Held /\ x \notin Buffered /\ held[p] = None /\ x # None
      BY <1>7, <2>1, PoolAssumption DEF CallFactory, Make, OneOwner, HoldsWhileUsing
    <3>2. OneOwner'
      <4>1. /\ held' \in [Procs -> Sockets \cup {None}]
            /\ HeldOnce' /\ Held' = Held \cup {x}
        BY <2>1, <3>1, Taken DEF OneOwner, TypeOK
      <4> QED
        BY <1>7, <2>0, <2>1, <3>1, <4>1 DEF CallFactory, Make, Goto, OneOwner, TypeOK, PcStates
    <3>3. HoldsWhileUsing' /\ OverIsShut' /\ SeenIsMarked'
      BY <1>7, <2>1, <3>1
         DEF CallFactory, Make, Goto, OneOwner, TypeOK, HoldsWhileUsing, OverIsShut, SeenIsMarked
    <3> QED
      BY <3>2, <3>3
  <2>2. CASE /\ Goto(p, "idle") \/ Goto(p, "panic")
             /\ UNCHANGED <<held, open, broken, seen>>
    <3>1. OneOwner'
      BY <1>7, <2>0, <2>2 DEF CallFactory, Goto, OneOwner, TypeOK, PcStates, HeldOnce, Held
    <3>2. HoldsWhileUsing' /\ OverIsShut' /\ SeenIsMarked'
      BY <1>7, <2>2 DEF CallFactory, Goto, OneOwner, TypeOK, HoldsWhileUsing, OverIsShut, SeenIsMarked
    <3> QED
      BY <3>1, <3>2
  <2> QED
    BY <1>7, <2>1, <2>2 DEF CallFactory
<1>8. ASSUME NEW p \in Procs, put(p) \/ PutUnusable(p)
      PROVE  PoolInv'
  <2>1. held[p] # None /\ held' = [held EXCEPT ![p] = None] /\ Goto(p, "idle")
    BY <1>8 DEF put, PutUnusable, HoldsWhileUsing
  <2>2. /\ held[p] \in Sockets /\ held[p] \in Held /\ HeldOnce'
        /\ held' \in [Procs -> Sockets \cup {None}]
        /\ Held' = Held \ {held[p]}
    BY <2>1, Given DEF OneOwner, TypeOK
  <2>3. HoldsWhileUsing' /\ OverIsShut'
    BY <1>8, <2>1 DEF put, PutUnusable, Goto, OneOwner, TypeOK, HoldsWhileUsing, OverIsShut
  <2>4. CASE put(p) /\ conns' = Append(conns, held[p]) /\ UNCHANGED <<open, broken, seen>>
    <3>1. OneOwner'
      BY <2>1, <2>2, <2>4, Sent DEF put, Goto, OneOwner, TypeOK, PcStates
    <3>2. SeenIsMarked'
      BY <2>1, <2>2, <2>4 DEF put, Goto, OneOwner, TypeOK, SeenIsMarked, HeldOnce
    <3> QED
      BY <2>3, <3>1, <3>2
  <2>5. CASE CloseConn(held[p]) /\ UNCHANGED <<conns, phase, shut, over, factory>>
    <3>1. Buffered' = Buffered /\ BufferedOnce' /\ held[p] \notin Buffered
      BY <2>2, <2>5 DEF Buffered, BufferedOnce, OneOwner
    <3>2. OneOwner'
      BY <2>1, <2>2, <2>5, <3>1 DEF CloseConn, Goto, OneOwner, TypeOK, PcStates
    <3>3. SeenIsMarked'
      BY <2>1, <2>2, <2>5 DEF CloseConn, Goto, OneOwner, TypeOK, SeenIsMarked
    <3> QED
      BY <2>3, <3>2, <3>3
  <2> QED
    BY <1>8, <2>4, <2>5 DEF put, PutUnusable
<1>9. ASSUME NEW p \in Procs, Drain(p)
      PROVE  PoolInv'
  <2>1. Held' = Held /\ HeldOnce'
    BY <1>9 DEF Drain, Held, HeldOnce, OneOwner
  <2>2. CASE conns # << >>
    <3>1. Head(conns) \notin Held /\ Head(conns) \in Sockets
      BY <1>9, <2>2, Received DEF Drain, OneOwner, TypeOK
    <3>2. OneOwner'
      BY <1>9, <2>1, <2>2, <3>1, Received DEF Drain, CloseConn, OneOwner, TypeOK
    <3>3. HoldsWhileUsing' /\ OverIsShut' /\ SeenIsMarked'
      BY <1>9, <2>2 DEF Drain, CloseConn, HoldsWhileUsing, OverIsShut, SeenIsMarked
    <3> QED
      BY <3>2, <3>3
  <2>3. CASE conns = << >>
    <3>1. OneOwner'
      BY <1>9, <2>1, <2>3 DEF Drain, Goto, OneOwner, TypeOK, PcStates, Buffered, BufferedOnce
    <3>2. HoldsWhileUsing' /\ OverIsShut' /\ SeenIsMarked'
      BY <1>9, <2>3 DEF Drain, Goto, OneOwner, TypeOK, HoldsWhileUsing, OverIsShut, SeenIsMarked
    <3> QED
      BY <3>1, <3>2
  <2> QED
    BY <2>2, <2>3
<1>10. CASE UNCHANGED vars
  BY <1>10, SMTT(30) DEF vars, OneOwner, TypeOK, BufferedOnce, HeldOnce, Buffered, Held,
               HoldsWhileUsing, OverIsShut, SeenIsMarked
<1> QED
  BY <1>1, <1>2, <1>3, <1>4, <1>5, <1>6, <1>7, <1>8, <1>9, <1>10 DEF Next

LEMMA PoolInvariant == Spec => []PoolInv
<1>1. PoolInv /\ [Next]_vars => PoolInv'
  BY PoolStep
<1> QED
  BY <1>1, PoolInit, PTL DEF Spec

-----------------------------------------------------------------------------
(***************************************************************************)
(* Whatever Get, Put and Close do at the same time, every open connection  *)
(* is in the pool or with one goroutine, and in no two places.             *)
(***************************************************************************)
THEOREM EveryConnectionHasOneOwner == Spec => []OneOwner
<1>1. PoolInv => OneOwner
  BY DEF PoolInv
<1> QED
  BY <1>1, PoolInvariant, PTL

(***************************************************************************)
(* A connection on which a command met an I/O error does not come back     *)
(* into the channel.                                                       *)
(***************************************************************************)
THEOREM BrokenConnectionsLeave == Spec => []BrokenIsNotReused
<1>1. PoolInv => BrokenIsNotReused
  <2>1. PoolInv => \A x \in seen : x \in Held
    BY PoolAssumption DEF PoolInv, SeenIsMarked, HoldsWhileUsing, Held
  <2> QED
    BY <2>1 DEF PoolInv, OneOwner, BrokenIsNotReused
<1> QED
  BY <1>1, PoolInvariant, PTL

(***************************************************************************)
(* put never sends to a channel that is closed or full, so that it neither *)
(* panics nor blocks while it holds the lock.                              *)
(***************************************************************************)
THEOREM PutNeverPanics == Spec => SendIsSafe
<1>1. PoolInv /\ [Next]_vars =>
        [\A p \in Procs : put(p) /\ Len(conns') > Len(conns) =>
            ~over /\ Len(conns') <= MaxCap]_vars
  <2>1. ASSUME PoolInv, NEW p \in Procs, put(p), Len(conns') > Len(conns)
        PROVE  ~over /\ Len(conns') <= MaxCap
    <3>1. conns \in Seq(Sockets) /\ held[p] \in Sockets
      BY <2>1, PoolAssumption DEF PoolInv, OneOwner, TypeOK, HoldsWhileUsing, put
    <3>2. ~shut /\ Len(conns) < MaxCap /\ conns' = Append(conns, held[p])
      BY <2>1, <3>1 DEF put
    <3> QED
      BY <2>1, <3>1, <3>2, PoolAssumption DEF PoolInv, OverIsShut
  <2> QED
    BY <2>1
<1> QED
  BY <1>1, PoolInvariant, PTL DEF Spec, SendIsSafe

=============================================================================
