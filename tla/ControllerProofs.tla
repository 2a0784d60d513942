-------------------------- MODULE ControllerProofs --------------------------
(***************************************************************************)
(* Theorems about SpiController, for every set of chips and messages, and  *)
(* about Dm9000, for every number of packets that wait or mask "rx".       *)
(***************************************************************************)
EXTENDS SpiController, Dm9000, FiniteSetTheorems, TLAPS

(* The process and the handler take turns: a byte is out or an interrupt   *)
(* is pending only while the process sleeps with nothing completed, and a  *)
(* transfer's byte count starts at 0.                                      *)
Turns ==
  /\ irq \/ tdat # None => pc = "sleep" /\ done = 0 /\ cur_cnt < Exchanged(mesg.ts[t])
  /\ ~(irq /\ tdat # None)
  /\ pc \in {"kick", "sleep"} => t > 0 /\ cur_t = t /\ (mesg.ts[t].tx \/ mesg.ts[t].rx)
  /\ pc = "kick" => cur_cnt = 0
  /\ pc # "sleep" => done = 0

IInv == TypeOK /\ Turns /\ OneSelected

USE TransfersAssumption, MessagesAssumption, ByteAssumption

(* What Continue compares with tells the same as what is exchanged.        *)
LEMMA ExchangedIs ==
  ASSUME NEW x \in Transfers
  PROVE  /\ Exchanged(x) \in Nat \ {0} /\ x.len \in Nat
         /\ \A n \in Nat : n + 1 < x.len <=> n + 1 < Exchanged(x)
         /\ ~x.tx /\ x.rx => Exchanged(x) = x.len
<1>1. x \in [tx : BOOLEAN, rx : BOOLEAN, len : Nat] OBVIOUS
<1>2. x.len \in Nat /\ (x.len = 0 /\ x.rx => x.tx) BY <1>1
<1> QED BY <1>2 DEF Exchanged

LEMMA MessageType ==
  ASSUME TypeOK
  PROVE  /\ mesg.chip \in Chips /\ mesg.ts \in Seq(Transfers)
         /\ \A k \in 1 .. Len(mesg.ts) : /\ Exchanged(mesg.ts[k]) \in Nat \ {0}
                                         /\ mesg.ts[k] \in Transfers
                                         /\ mesg.ts[k].tx \in BOOLEAN
<1>1. mesg \in [chip : Chips, ts : Seq(Transfers)] BY DEF TypeOK
<1>2. mesg.ts \in Seq(Transfers) BY <1>1
<1>3. ASSUME NEW k \in 1 .. Len(mesg.ts)
      PROVE  mesg.ts[k] \in Transfers /\ mesg.ts[k].tx \in BOOLEAN
  <2>1. mesg.ts[k] \in Transfers BY <1>2, <1>3
  <2>2. mesg.ts[k] \in [tx : BOOLEAN, rx : BOOLEAN, len : Nat] BY <2>1
  <2> QED BY <2>1, <2>2
<1> QED BY <1>1, <1>2, <1>3, ExchangedIs

LEMMA Initially == Init => IInv
<1> SUFFICES ASSUME Init PROVE IInv OBVIOUS
<1>1. mesg \in [chip : Chips, ts : Seq(Transfers)] BY DEF Init
<1>2. TypeOK
  <2>1. mesg.ts \in Seq(Transfers) BY <1>1
  <2>2. t \in 0 .. Len(mesg.ts) BY <2>1 DEF Init
  <2>3. frame \in Seq((Nat \X Nat) \cup {Dummy}) BY DEF Init
  <2>4. tdat \in (Nat \X Nat) \cup {Dummy, None} BY DEF Init
  <2>5. stored \subseteq Nat \X Nat \X Nat BY DEF Init
  <2> QED BY <2>2, <2>3, <2>4, <2>5 DEF Init, TypeOK
<1>3. Turns /\ OneSelected BY DEF Init, Turns, OneSelected
<1> QED BY <1>2, <1>3 DEF IInv

LEMMA Inductive == IInv /\ [Next]_vars => IInv'
<1> SUFFICES ASSUME IInv, [Next]_vars PROVE IInv' OBVIOUS
<1> USE DEF IInv, process, info, wires
<1>0. TypeOK /\ Turns /\ OneSelected OBVIOUS
<1>1. ASSUME NEW m \in Messages, Select(m) PROVE IInv'
  <2>1. m.chip \in Chips /\ Len(m.ts) \in Nat
    <3>1. m \in [chip : Chips, ts : Seq(Transfers)] OBVIOUS
    <3> QED BY <3>1
  <2>2. irq = FALSE /\ tdat = None /\ done = 0 /\ cs = {}
    BY <1>1 DEF Select, Turns, TypeOK, OneSelected
  <2>3. TypeOK' BY <1>1, <2>1, <2>2 DEF Select, TypeOK
  <2>4. Turns' /\ OneSelected' BY <1>1, <2>2 DEF Select, Turns, OneSelected
  <2> QED BY <2>3, <2>4
<1>2. CASE Take
  <2>1. t + 1 \in 1 .. Len(mesg.ts) BY <1>2, MessageType DEF Take, TypeOK
  <2>2. TypeOK' BY <1>2, <2>1 DEF Take, TypeOK
  <2>3. irq = FALSE /\ tdat = None BY <1>2 DEF Take, Turns, TypeOK
  <2>4. Turns' BY <1>2, <2>1, <2>3 DEF Take, Turns
  <2>5. OneSelected' BY <1>2 DEF Take, OneSelected
  <2> QED BY <2>2, <2>4, <2>5
<1>3. CASE Kick
  <2>1. t \in 1 .. Len(mesg.ts) BY <1>3, MessageType DEF Kick, TypeOK, Turns
  <2>2. tdat' \in (Nat \X Nat) \cup {Dummy, None} BY <1>3, <2>1 DEF Kick
  <2>3. TypeOK' BY <1>3, <2>2 DEF Kick, TypeOK
  <2>4. cur_cnt < Exchanged(mesg.ts[t]) /\ irq = FALSE /\ done = 0
    BY <1>3, <2>1, MessageType DEF Kick, Turns, TypeOK
  <2>5. Turns' BY <1>3, <2>4 DEF Kick, Turns
  <2>6. OneSelected' BY <1>3 DEF Kick, OneSelected
  <2> QED BY <2>3, <2>5, <2>6
<1>4. CASE Awake BY <1>4 DEF Awake, TypeOK, Turns, OneSelected
<1>5. CASE Complete BY <1>5 DEF Complete, TypeOK, Turns, OneSelected
<1>6. CASE Deselect
  <2>1. cs' = {} BY <1>6 DEF Deselect, OneSelected
  <2> QED BY <1>6, <2>1 DEF Deselect, TypeOK, Turns, OneSelected
<1>7. ASSUME NEW v \in (Nat \X Nat) \cup {Dummy}, irq, irq' = FALSE,
             Continue(mesg.ts[cur_t], v),
             UNCHANGED <<process, cur_t, cs, rdat, frame>>,
             stored' \in SUBSET (Nat \X Nat \X Nat)
      PROVE  IInv'
  <2>1. /\ pc = "sleep" /\ done = 0 /\ tdat = None /\ cur_t = t
        /\ t \in 1 .. Len(mesg.ts) /\ mesg.ts[t] \in Transfers
        /\ mesg.ts[t].tx \/ mesg.ts[t].rx
    BY <1>7, MessageType DEF Turns, TypeOK
  <2>0. /\ UNCHANGED <<pc, mesg, t, cur_t, cs, rdat, frame>>
        /\ cur_cnt + 1 \in Nat /\ v \in (Nat \X Nat) \cup {Dummy, None}
    BY <1>7 DEF TypeOK
  <2>2. CASE /\ cur_cnt' = cur_cnt + 1 /\ cur_cnt + 1 < mesg.ts[t].len
             /\ tdat' = v /\ UNCHANGED done
    <3>1. TypeOK' BY <1>7, <2>0, <2>1, <2>2 DEF TypeOK
    <3>2. cur_cnt + 1 < Exchanged(mesg.ts[t]) BY <2>1, <2>2, ExchangedIs DEF TypeOK
    <3>3. Turns' BY <1>7, <2>1, <2>2, <3>2 DEF Turns, TypeOK
    <3> QED BY <1>7, <3>1, <3>3 DEF OneSelected
  <2>3. CASE cur_cnt' = cur_cnt + 1 /\ done' = 1 /\ UNCHANGED tdat
    <3>1. TypeOK' BY <1>7, <2>0, <2>1, <2>3 DEF TypeOK
    <3>2. Turns' BY <1>7, <2>1, <2>3 DEF Turns, TypeOK
    <3> QED BY <1>7, <3>1, <3>2 DEF OneSelected
  <2> QED BY <1>7, <2>1, <2>2, <2>3 DEF Continue
<1>8. CASE IrqSend
  <2>1. <<cur_t, cur_cnt + 1>> \in Nat \X Nat BY DEF TypeOK
  <2>2. stored' \in SUBSET (Nat \X Nat \X Nat) BY <1>8 DEF IrqSend, TypeOK
  <2> QED BY <1>7, <1>8, <2>1, <2>2 DEF IrqSend
<1>9. CASE IrqReceive
  <2>1. stored' \in SUBSET (Nat \X Nat \X Nat) BY <1>9 DEF IrqReceive, TypeOK
  <2> QED BY <1>7, <1>9, <2>1 DEF IrqReceive
<1>10. CASE Shifted
  <2>1. frame' \in Seq((Nat \X Nat) \cup {Dummy}) /\ rdat' \in Nat
    BY <1>10 DEF Shifted, TypeOK
  <2>2. TypeOK' BY <1>10, <2>1 DEF Shifted, TypeOK
  <2> QED BY <1>10, <2>2 DEF Shifted, Turns, OneSelected
<1>11. CASE UNCHANGED vars BY <1>11 DEF vars, TypeOK, Turns, OneSelected
<1> QED BY <1>1, <1>2, <1>3, <1>4, <1>5, <1>6, <1>8, <1>9, <1>10, <1>11
        DEF Next, Handler

LEMMA Always == Spec => []IInv
BY Initially, Inductive, PTL DEF Spec

(* Every variable stays in its type; the completion is never ahead.        *)
THEOREM TypeCorrect == Spec => []TypeOK
<1>1. IInv => TypeOK BY DEF IInv
<1> QED BY <1>1, Always, PTL

(* The handler never works on a stale transfer nor outside its buffer.     *)
THEOREM AlwaysItsTransfer == Spec => []IrqFindsItsTransfer
<1>1. IInv => IrqFindsItsTransfer
  <2> SUFFICES ASSUME IInv, irq \/ tdat # None
               PROVE  /\ pc = "sleep" /\ cur_t = t /\ cur_t > 0
                      /\ cur_cnt < Exchanged(mesg.ts[cur_t])
                      /\ ~mesg.ts[cur_t].tx => cur_cnt < mesg.ts[cur_t].len
    BY DEF IrqFindsItsTransfer
  <2>1. /\ pc = "sleep" /\ cur_t = t /\ cur_t > 0 /\ t \in 1 .. Len(mesg.ts)
        /\ cur_cnt < Exchanged(mesg.ts[t]) /\ (mesg.ts[t].tx \/ mesg.ts[t].rx)
    BY MessageType DEF IInv, Turns, TypeOK
  <2>2. mesg.ts[t] \in Transfers BY <2>1, MessageType DEF IInv
  <2> QED BY <2>1, <2>2, ExchangedIs
<1> QED BY <1>1, Always, PTL

(* Exactly the chip of the message in progress is selected.                *)
THEOREM AlwaysOneSelected == Spec => []OneSelected
<1>1. IInv => OneSelected BY DEF IInv
<1> QED BY <1>1, Always, PTL

(* A process that sleeps is never forgotten: the byte of its transfer is   *)
(* on the wire, its interrupt is pending or the transfer is complete.      *)
(* What is left of Completes without fairness.                             *)
THEOREM AlwaysSleepIsForSomething ==
  Spec => [](pc = "sleep" => irq \/ tdat # None \/ done > 0)
<1> DEFINE Awaited == pc = "sleep" => irq \/ tdat # None \/ done > 0
<1>1. Init => Awaited BY DEF Init
<1>2. ASSUME IInv, Awaited, [Next]_vars PROVE Awaited'
  <2> USE <1>2 DEF process, info, wires
  <2>1. ASSUME NEW m \in Messages, Select(m) PROVE Awaited' BY <2>1 DEF Select
  <2>2. CASE Take \/ Awake \/ Complete \/ Deselect
    BY <2>2 DEF Take, Awake, Complete, Deselect
  <2>3. CASE Kick
    <3>1. <<t, 0>> # None /\ Dummy # None
      <4>1. t \in Nat
        <5>1. Len(mesg.ts) \in Nat BY MessageType DEF IInv
        <5> QED BY <5>1 DEF IInv, TypeOK
      <4> QED BY <4>1
    <3> QED BY <2>3, <3>1 DEF Kick
  <2>4. ASSUME NEW x, NEW v, v # None, Continue(x, v) PROVE Awaited'
    <3>1. done + 1 > 0 BY DEF IInv, TypeOK
    <3> QED BY <2>4, <3>1 DEF Continue
  <2>5. <<cur_t, cur_cnt + 1>> # None /\ Dummy # None
    <3>1. <<cur_t, cur_cnt + 1>> \in Nat \X Nat BY DEF IInv, TypeOK
    <3> QED BY <3>1
  <2>6. CASE IrqSend BY <2>4, <2>5, <2>6 DEF IrqSend
  <2>7. CASE IrqReceive BY <2>4, <2>5, <2>7 DEF IrqReceive
  <2>8. CASE Shifted BY <2>8 DEF Shifted
  <2>9. CASE UNCHANGED vars BY <2>9 DEF vars
  <2> QED BY <2>1, <2>2, <2>3, <2>6, <2>7, <2>8, <2>9 DEF Next, Handler
<1> QED BY <1>1, <1>2, Always, PTL DEF Spec
----------------------------------------------------------------------------
(* What goes over the wire.                                                *)

(* The bytes of a message that come before the place p.                    *)
UpTo(ts, p) == {b \in BytesOf(ts) : Before(b, p)}

(* A byte of a message is at a place of a transfer with a buffer.          *)
LEMMA BytesType ==
  ASSUME NEW ts \in Seq(Transfers)
  PROVE  /\ \A k \in 1 .. Len(ts) : Exchanged(ts[k]) \in Nat \ {0}
         /\ \A b \in BytesOf(ts) : /\ b = <<b[1], b[2]>>
                                   /\ b[1] \in 1 .. Len(ts) /\ b[2] \in Nat
                                   /\ b[2] < Exchanged(ts[b[1]])
                                   /\ ts[b[1]].tx \/ ts[b[1]].rx
         /\ \A k \in 1 .. Len(ts), i \in Nat :
              (ts[k].tx \/ ts[k].rx) /\ i < Exchanged(ts[k]) => <<k, i>> \in BytesOf(ts)
<1>1. ASSUME NEW k \in 1 .. Len(ts) PROVE Exchanged(ts[k]) \in Nat \ {0}
  <2>1. ts[k] \in Transfers OBVIOUS
  <2> QED BY <2>1, ExchangedIs
<1>2. ASSUME NEW b \in BytesOf(ts)
      PROVE  /\ b = <<b[1], b[2]>>
             /\ b[1] \in 1 .. Len(ts) /\ b[2] \in Nat
             /\ b[2] < Exchanged(ts[b[1]])
             /\ ts[b[1]].tx \/ ts[b[1]].rx
  <2>1. PICK k \in {j \in DOMAIN ts : ts[j].tx \/ ts[j].rx} :
               b \in {<<k, i>> : i \in 0 .. Exchanged(ts[k]) - 1}
    BY DEF BytesOf
  <2>2. PICK i \in 0 .. Exchanged(ts[k]) - 1 : b = <<k, i>> BY <2>1
  <2>3. k \in 1 .. Len(ts) OBVIOUS
  <2> QED BY <1>1, <2>2, <2>3
<1>3. ASSUME NEW k \in 1 .. Len(ts), NEW i \in Nat, ts[k].tx \/ ts[k].rx, i < Exchanged(ts[k])
      PROVE  <<k, i>> \in BytesOf(ts)
  <2>1. i \in 0 .. Exchanged(ts[k]) - 1 BY <1>1, <1>3
  <2>2. k \in {j \in DOMAIN ts : ts[j].tx \/ ts[j].rx} BY <1>3
  <2>3. <<k, i>> \in {<<k, n>> : n \in 0 .. Exchanged(ts[k]) - 1} BY <2>1
  <2> QED BY <2>2, <2>3 DEF BytesOf
<1> QED BY <1>1, <1>2, <1>3

(* There are finitely many, so that they can be counted.                   *)
LEMMA BytesFinite ==
  ASSUME NEW ts \in Seq(Transfers)
  PROVE  IsFiniteSet(BytesOf(ts))
<1> DEFINE D == {j \in DOMAIN ts : ts[j].tx \/ ts[j].rx}
           Of(k) == {<<k, i>> : i \in 0 .. Exchanged(ts[k]) - 1}
           F == [k \in D |-> Of(k)]
<1>1. IsFiniteSet(D)
  <2>1. IsFiniteSet(1 .. Len(ts)) BY FS_Interval
  <2>2. D \in SUBSET (1 .. Len(ts)) OBVIOUS
  <2> QED BY <2>1, <2>2, FS_Subset
<1>2. ASSUME NEW k \in D PROVE IsFiniteSet(Of(k))
  <2> DEFINE g == [i \in 0 .. Exchanged(ts[k]) - 1 |-> <<k, i>>]
  <2>1. Exchanged(ts[k]) - 1 \in Int
    <3>1. k \in 1 .. Len(ts) OBVIOUS
    <3>2. Exchanged(ts[k]) \in Nat BY <3>1, BytesType
    <3> QED BY <3>2
  <2>2. IsFiniteSet(0 .. Exchanged(ts[k]) - 1)
    <3>1. ASSUME NEW n \in Int PROVE IsFiniteSet(0 .. n) BY FS_Interval
    <3> QED BY <2>1, <3>1
  <2>3. g \in Surjection(0 .. Exchanged(ts[k]) - 1, Of(k)) BY DEF Surjection
  <2> HIDE DEF g, Of
  <2> QED BY <2>2, <2>3, FS_Surjection
<1>3. F \in Surjection(D, {Of(k) : k \in D})
  <2> HIDE DEF Of, D
  <2>1. F \in [D -> {Of(k) : k \in D}] OBVIOUS
  <2>2. \A T \in {Of(k) : k \in D} : \E k \in D : F[k] = T OBVIOUS
  <2> QED BY <2>1, <2>2 DEF Surjection
<1>4. IsFiniteSet({Of(k) : k \in D})
  <2> HIDE DEF F, Of, D
  <2> QED BY <1>1, <1>3, FS_Surjection
<1>5. \A T \in {Of(k) : k \in D} : IsFiniteSet(T) 
  <2> HIDE DEF Of, D
  <2> QED BY <1>2
<1>6. IsFiniteSet(UNION {Of(k) : k \in D})
  <2> HIDE DEF Of, D
  <2> QED BY <1>4, <1>5, FS_UNION
<1> QED BY <1>6 DEF BytesOf

(* So are those before a place.                                            *)
LEMMA UpToFinite ==
  ASSUME NEW ts \in Seq(Transfers), NEW p
  PROVE  IsFiniteSet(UpTo(ts, p)) /\ Cardinality(UpTo(ts, p)) \in Nat
<1>1. UpTo(ts, p) \in SUBSET BytesOf(ts) BY DEF UpTo
<1>2. IsFiniteSet(UpTo(ts, p)) BY <1>1, BytesFinite, FS_Subset
<1> QED BY <1>2, FS_CardinalityType

(* One byte on: the byte at the place itself.                              *)
LEMMA UpToNext ==
  ASSUME NEW ts \in Seq(Transfers), NEW k \in 1 .. Len(ts), NEW i \in Nat,
         ts[k].tx \/ ts[k].rx, i < Exchanged(ts[k])
  PROVE  /\ UpTo(ts, <<k, i + 1>>) = UpTo(ts, <<k, i>>) \cup {<<k, i>>}
         /\ Cardinality(UpTo(ts, <<k, i + 1>>)) = Cardinality(UpTo(ts, <<k, i>>)) + 1
<1>1. <<k, i>> \in BytesOf(ts) BY BytesType
<1>2. UpTo(ts, <<k, i + 1>>) = UpTo(ts, <<k, i>>) \cup {<<k, i>>}
  <2>1. ASSUME NEW b \in BytesOf(ts)
        PROVE  Before(b, <<k, i + 1>>) <=> Before(b, <<k, i>>) \/ b = <<k, i>>
    <3>1. b = <<b[1], b[2]>> /\ b[1] \in Nat /\ b[2] \in Nat BY BytesType
    <3> QED BY <3>1 DEF Before
  <2> QED BY <1>1, <2>1 DEF UpTo
<1>3. <<k, i>> \notin UpTo(ts, <<k, i>>) BY DEF UpTo, Before
<1> QED BY <1>2, <1>3, UpToFinite, FS_AddElement

(* After the last byte of a transfer, and over one without buffers.        *)
LEMMA UpToEnd ==
  ASSUME NEW ts \in Seq(Transfers), NEW k \in 1 .. Len(ts), NEW i \in Nat,
         i = Exchanged(ts[k]) \/ ~(ts[k].tx \/ ts[k].rx)
  PROVE  UpTo(ts, <<k, i>>) = UpTo(ts, <<k + 1, 0>>)
<1>1. ASSUME NEW b \in BytesOf(ts)
      PROVE  Before(b, <<k, i>>) <=> Before(b, <<k + 1, 0>>)
  <2>1. /\ b = <<b[1], b[2]>> /\ b[1] \in Nat /\ b[2] \in Nat
        /\ b[2] < Exchanged(ts[b[1]]) /\ (ts[b[1]].tx \/ ts[b[1]].rx)
    BY BytesType
  <2> QED BY <2>1 DEF Before
<1> QED BY <1>1 DEF UpTo

(* At the two ends of the list.                                            *)
LEMMA UpToEnds ==
  ASSUME NEW ts \in Seq(Transfers)
  PROVE  /\ UpTo(ts, <<1, 0>>) = {}
         /\ UpTo(ts, <<Len(ts) + 1, 0>>) = BytesOf(ts)
<1>1. ASSUME NEW b \in BytesOf(ts)
      PROVE  ~Before(b, <<1, 0>>) /\ Before(b, <<Len(ts) + 1, 0>>)
  <2>1. b[1] \in 1 .. Len(ts) /\ b[2] \in Nat BY BytesType
  <2> QED BY <2>1 DEF Before
<1> QED BY <1>1 DEF UpTo

(* A byte's place in the frame is among the bytes sent before p.           *)
LEMMA PlaceInside ==
  ASSUME NEW ts \in Seq(Transfers), NEW p \in Nat \X Nat, NEW b \in UpTo(ts, p)
  PROVE  Place(ts, b) \in Nat /\ Place(ts, b) < Cardinality(UpTo(ts, p))
<1>1. b \in BytesOf(ts) /\ Before(b, p) BY DEF UpTo
<1>2. b = <<b[1], b[2]>> /\ b[1] \in 1 .. Len(ts) /\ b[2] \in Nat 
      /\ b[2] < Exchanged(ts[b[1]]) /\ (ts[b[1]].tx \/ ts[b[1]].rx)
  BY <1>1, BytesType
<1>3. Place(ts, b) = Cardinality(UpTo(ts, b)) BY DEF Place, UpTo
<1>4. b \notin UpTo(ts, b) BY <1>2 DEF UpTo, Before
<1>5. UpTo(ts, b) \cup {b} \in SUBSET UpTo(ts, p)
  <2>1. ASSUME NEW c \in BytesOf(ts), Before(c, b) PROVE Before(c, p)
    <3>1. c[1] \in Nat /\ c[2] \in Nat BY BytesType
    <3> QED BY <1>1, <1>2, <2>1, <3>1 DEF Before
  <2> QED BY <2>1 DEF UpTo
<1>6. Cardinality(UpTo(ts, b) \cup {b}) = Cardinality(UpTo(ts, b)) + 1
  BY <1>4, UpToFinite, FS_AddElement
<1>7. Cardinality(UpTo(ts, b) \cup {b}) <= Cardinality(UpTo(ts, p))
  BY <1>5, UpToFinite, FS_Subset
<1> QED BY <1>3, <1>6, <1>7, UpToFinite

(* The first of the bytes that are not in the frame, and of those that the *)
(* handler has not seen; the frame and what was stored, up to there.       *)
At == IF tdat # None \/ pc = "kick" THEN <<t, cur_cnt>>
      ELSE IF irq THEN <<t, cur_cnt + 1>> ELSE <<t + 1, 0>>
SeenTo == IF irq \/ tdat # None \/ pc = "kick" THEN <<t, cur_cnt>> ELSE <<t + 1, 0>>
Content(ts, b) == IF ts[b[1]].tx THEN b ELSE Dummy
Shown(ts, fr, S) ==
  Len(fr) = Cardinality(S) /\ \A b \in S : fr[Place(ts, b) + 1] = Content(ts, b)
Stored(ts, S) ==
  {<<b[1], b[2], Place(ts, b)>> : b \in {c \in S : ~ts[c[1]].tx}}

(* The frame holds the bytes that were sent, in order, whatever step comes *)
(* next; the byte in rdat is the last of them.                             *)
InFrame ==
  /\ pc \in {"kick", "sleep"} => mesg.ts[t].tx \/ mesg.ts[t].rx
  /\ pc = "sleep" /\ done = 0 => irq \/ tdat # None
  /\ tdat # None => tdat = Content(mesg.ts, <<t, cur_cnt>>)
  /\ irq => rdat + 1 = Len(frame)
  /\ pc = "over" => t = Len(mesg.ts)
  /\ pc # "out" => /\ Shown(mesg.ts, frame, UpTo(mesg.ts, At))
                   /\ stored = Stored(mesg.ts, UpTo(mesg.ts, SeenTo))

(* A byte more in the frame.                                               *)
LEMMA ShownNext ==
  ASSUME NEW ts \in Seq(Transfers), NEW k \in 1 .. Len(ts), NEW i \in Nat,
         ts[k].tx \/ ts[k].rx, i < Exchanged(ts[k]),
         NEW fr \in Seq((Nat \X Nat) \cup {Dummy}), Shown(ts, fr, UpTo(ts, <<k, i>>))
  PROVE  Shown(ts, Append(fr, Content(ts, <<k, i>>)), UpTo(ts, <<k, i + 1>>))
<1> DEFINE v == Content(ts, <<k, i>>)
           S == UpTo(ts, <<k, i>>)
<1>1. v \in (Nat \X Nat) \cup {Dummy} BY DEF Content
<1>2. Len(Append(fr, v)) = Len(fr) + 1 /\ Len(fr) = Cardinality(S) /\ Len(fr) \in Nat
  BY <1>1 DEF Shown
<1>3. Cardinality(UpTo(ts, <<k, i + 1>>)) = Cardinality(S) + 1
      /\ UpTo(ts, <<k, i + 1>>) = S \cup {<<k, i>>}
  BY UpToNext
<1>4. ASSUME NEW b \in S PROVE Append(fr, v)[Place(ts, b) + 1] = Content(ts, b)
  <2>1. Place(ts, b) \in Nat /\ Place(ts, b) < Len(fr) 
    <3>1. <<k, i>> \in Nat \X Nat OBVIOUS
    <3> QED BY <1>2, <3>1, PlaceInside
  <2>2. fr[Place(ts, b) + 1] = Content(ts, b) BY DEF Shown
  <2>3. Append(fr, v)[Place(ts, b) + 1] = fr[Place(ts, b) + 1]
    <3> HIDE DEF v
    <3> QED BY <1>1, <2>1
  <2> QED BY <2>2, <2>3
<1>5. Append(fr, v)[Place(ts, <<k, i>>) + 1] = v
  <2>1. Place(ts, <<k, i>>) = Len(fr) BY <1>2 DEF Place, UpTo
  <2> HIDE DEF v
  <2>2. Append(fr, v)[Len(fr) + 1] = v BY <1>1
  <2> QED BY <2>1, <2>2
<1> QED BY <1>2, <1>3, <1>4, <1>5 DEF Shown

(* A byte more that the handler has seen.                                  *)
LEMMA StoredNext ==
  ASSUME NEW ts \in Seq(Transfers), NEW k \in 1 .. Len(ts), NEW i \in Nat,
         ts[k].tx \/ ts[k].rx, i < Exchanged(ts[k])
  PROVE  Stored(ts, UpTo(ts, <<k, i + 1>>)) =
           Stored(ts, UpTo(ts, <<k, i>>))
             \cup (IF ts[k].tx THEN {} ELSE {<<k, i, Place(ts, <<k, i>>)>>})
<1>1. UpTo(ts, <<k, i + 1>>) = UpTo(ts, <<k, i>>) \cup {<<k, i>>} BY UpToNext
<1> DEFINE R(S) == {c \in S : ~ts[c[1]].tx}
           S == UpTo(ts, <<k, i>>)
<1>2. R(S \cup {<<k, i>>}) = R(S) \cup (IF ts[k].tx THEN {} ELSE {<<k, i>>}) OBVIOUS
<1>3. CASE ts[k].tx BY <1>1, <1>2, <1>3 DEF Stored
<1>4. CASE ~ts[k].tx
  <2>1. Stored(ts, UpTo(ts, <<k, i + 1>>))
          = {<<b[1], b[2], Place(ts, b)>> : b \in R(S) \cup {<<k, i>>}}
    BY <1>1, <1>2, <1>4 DEF Stored
  <2>2. Stored(ts, S) = {<<b[1], b[2], Place(ts, b)>> : b \in R(S)} BY DEF Stored
  <2> DEFINE G(b) == <<b[1], b[2], Place(ts, b)>>
  <2>3. G(<<k, i>>) = <<k, i, Place(ts, <<k, i>>)>> OBVIOUS
  <2>4. Stored(ts, UpTo(ts, <<k, i + 1>>)) = {G(b) : b \in R(S) \cup {<<k, i>>}}
    BY <2>1
  <2>5. Stored(ts, S) = {G(b) : b \in R(S)} BY <2>2
  <2> HIDE DEF R, S, G
  <2>6. Stored(ts, UpTo(ts, <<k, i + 1>>)) = Stored(ts, S) \cup {G(<<k, i>>)}
    BY <2>4, <2>5
  <2> QED BY <1>4, <2>3, <2>6 DEF S
<1> QED BY <1>3, <1>4

(* No step breaks it.                                                      *)
LEMMA InFrameStep == IInv /\ InFrame /\ [Next]_vars => InFrame'
<1> SUFFICES ASSUME IInv, InFrame, [Next]_vars PROVE InFrame' OBVIOUS
<1> USE DEF process, info, wires
<1>0. /\ TypeOK /\ Turns /\ TypeOK' /\ mesg.ts \in Seq(Transfers) /\ t \in Nat
      /\ Len(mesg.ts) \in Nat
  BY Inductive, MessageType DEF IInv, TypeOK
<1>1. ASSUME NEW m \in Messages, Select(m) PROVE InFrame'
  <2>1. /\ irq = FALSE /\ tdat = None /\ pc' = "next" /\ t' = 0 /\ mesg' = m
        /\ frame' = <<>> /\ stored' = {} /\ UNCHANGED <<irq, tdat>>
    BY <1>0, <1>1 DEF Select, Turns, TypeOK
  <2>2. m.ts \in Seq(Transfers)
    <3>1. m \in [chip : Chips, ts : Seq(Transfers)] OBVIOUS
    <3> QED BY <3>1
  <2>3. UpTo(mesg'.ts, At') = {} /\ UpTo(mesg'.ts, SeenTo') = {}
    <3>1. At' = <<1, 0>> /\ SeenTo' = <<1, 0>> BY <2>1 DEF At, SeenTo
    <3> QED BY <2>1, <2>2, <3>1, UpToEnds
  <2>4. Shown(mesg'.ts, frame', {}) BY <2>1, FS_EmptySet DEF Shown
  <2>5. stored' = Stored(mesg'.ts, {}) BY <2>1 DEF Stored
  <2> QED BY <2>1, <2>3, <2>4, <2>5 DEF InFrame
<1>2. CASE Take
  <2>1. /\ irq = FALSE /\ tdat = None /\ UNCHANGED <<irq, tdat, mesg, frame, stored>>
        /\ cur_cnt' = 0 /\ t' = t + 1 /\ t + 1 \in 1 .. Len(mesg.ts)
        /\ pc = "next" /\ pc' \in {"next", "kick"}
        /\ pc' = "kick" <=> (mesg.ts[t + 1].tx \/ mesg.ts[t + 1].rx)
    BY <1>0, <1>2 DEF Take, Turns, TypeOK
  <2>2. At = <<t + 1, 0>> /\ SeenTo = <<t + 1, 0>> BY <2>1 DEF At, SeenTo
  <2>3. UpTo(mesg.ts, At') = UpTo(mesg.ts, At) /\ UpTo(mesg.ts, SeenTo') = UpTo(mesg.ts, SeenTo)
    <3>1. CASE pc' = "kick" BY <2>1, <2>2, <3>1 DEF At, SeenTo
    <3>2. CASE pc' = "next"
      <4>1. At' = <<t + 1 + 1, 0>> /\ SeenTo' = <<t + 1 + 1, 0>>
        BY <2>1, <3>2 DEF At, SeenTo
      <4>2. UpTo(mesg.ts, <<t + 1, 0>>) = UpTo(mesg.ts, <<t + 1 + 1, 0>>)
        BY <1>0, <2>1, <3>2, UpToEnd
      <4> QED BY <2>2, <4>1, <4>2
    <3> QED BY <2>1, <3>1, <3>2
  <2> QED BY <2>1, <2>3 DEF InFrame
<1>3. CASE Kick
  <2>1. /\ irq = FALSE /\ tdat = None /\ UNCHANGED <<irq, mesg, t, cur_cnt, done, frame, stored>>
        /\ pc = "kick" /\ pc' = "sleep" /\ cur_cnt = 0 /\ done = 0
        /\ tdat' = Content(mesg.ts, <<t, 0>>)
    BY <1>0, <1>3 DEF Kick, Turns, TypeOK, Content
  <2>2. tdat' # None BY <1>0, <2>1 DEF Content
  <2>3. At' = At /\ SeenTo' = SeenTo BY <2>1, <2>2 DEF At, SeenTo
  <2> QED BY <2>1, <2>2, <2>3 DEF InFrame
<1>4. CASE Awake \/ Complete
  <2>1. /\ irq = FALSE /\ tdat = None /\ UNCHANGED <<irq, tdat, mesg, t, cur_cnt, frame, stored>>
        /\ pc # "kick" /\ pc' \in {"next", "over"} /\ pc # "out"
        /\ pc' = "over" => t = Len(mesg.ts)
    BY <1>0, <1>4 DEF Awake, Complete, Turns, TypeOK
  <2>2. At' = At /\ SeenTo' = SeenTo BY <2>1 DEF At, SeenTo
  <2> QED BY <2>1, <2>2 DEF InFrame
<1>5. CASE Deselect
  <2>1. irq = FALSE /\ tdat = None BY <1>0, <1>5 DEF Deselect, Turns, TypeOK
  <2> QED BY <1>5, <2>1 DEF Deselect, InFrame
<1>6. ASSUME irq, irq' = FALSE, NEW v,
             v = Content(mesg.ts, <<t, cur_cnt + 1>>),
             Continue(mesg.ts[cur_t], v),
             UNCHANGED <<process, cur_t, cs, rdat, frame>>,
             stored' = stored \cup
               (IF mesg.ts[t].tx THEN {} ELSE {<<t, cur_cnt, rdat>>})
      PROVE  InFrame'
  <2>1. /\ pc = "sleep" /\ done = 0 /\ tdat = None /\ cur_t = t /\ cur_cnt \in Nat
        /\ t \in 1 .. Len(mesg.ts) /\ mesg.ts[t] \in Transfers
        /\ Exchanged(mesg.ts[t]) \in Nat /\ cur_cnt < Exchanged(mesg.ts[t])
        /\ UNCHANGED <<pc, mesg, t, rdat, frame>> /\ cur_cnt' = cur_cnt + 1
        /\ mesg.ts[t].tx \/ mesg.ts[t].rx
    BY <1>0, <1>6, MessageType DEF Turns, TypeOK, InFrame, Continue
  <2>2. At = <<t, cur_cnt + 1>> /\ SeenTo = <<t, cur_cnt>> BY <1>6, <2>1 DEF At, SeenTo
  <2>3. Shown(mesg.ts, frame, UpTo(mesg.ts, <<t, cur_cnt + 1>>)) BY <2>1, <2>2 DEF InFrame
  <2>4. stored' = Stored(mesg.ts, UpTo(mesg.ts, <<t, cur_cnt + 1>>))
    <3>1. stored = Stored(mesg.ts, UpTo(mesg.ts, <<t, cur_cnt>>)) BY <2>1, <2>2 DEF InFrame
    <3>2. rdat + 1 = Cardinality(UpTo(mesg.ts, <<t, cur_cnt + 1>>))
      BY <1>6, <2>3 DEF InFrame, Shown
    <3>3. Cardinality(UpTo(mesg.ts, <<t, cur_cnt + 1>>))
            = Cardinality(UpTo(mesg.ts, <<t, cur_cnt>>)) + 1
      BY <1>0, <2>1, UpToNext
    <3>4. rdat = Place(mesg.ts, <<t, cur_cnt>>)
      <4>1. Place(mesg.ts, <<t, cur_cnt>>) = Cardinality(UpTo(mesg.ts, <<t, cur_cnt>>))
        BY DEF Place, UpTo
      <4>2. rdat \in Nat /\ Cardinality(UpTo(mesg.ts, <<t, cur_cnt>>)) \in Nat
        BY <1>0, UpToFinite DEF TypeOK
      <4> QED BY <3>2, <3>3, <4>1, <4>2
    <3> QED BY <1>0, <1>6, <2>1, <3>1, <3>4, StoredNext
  <2>5. UpTo(mesg.ts, At') = UpTo(mesg.ts, <<t, cur_cnt + 1>>)
        /\ UpTo(mesg.ts, SeenTo') = UpTo(mesg.ts, <<t, cur_cnt + 1>>)
        /\ (done' = 0 => tdat' # None) /\ (tdat' # None => tdat' = v)
    <3>0. cur_cnt + 1 < Exchanged(mesg.ts[t]) <=> cur_cnt + 1 < mesg.ts[t].len
      BY <2>1, ExchangedIs
    <3>1. CASE cur_cnt + 1 < Exchanged(mesg.ts[t])
      <4>1. tdat' = v /\ UNCHANGED done BY <1>6, <2>1, <3>0, <3>1 DEF Continue
      <4>2. v # None BY <1>6, <2>1 DEF Content
      <4> QED BY <1>6, <2>1, <4>1, <4>2 DEF At, SeenTo
    <3>2. CASE ~(cur_cnt + 1 < Exchanged(mesg.ts[t]))
      <4>1. done' = 1 /\ tdat' = None BY <1>6, <2>1, <3>0, <3>2 DEF Continue
      <4>2. At' = <<t + 1, 0>> /\ SeenTo' = <<t + 1, 0>> BY <1>6, <2>1, <4>1 DEF At, SeenTo
      <4>3. cur_cnt + 1 = Exchanged(mesg.ts[t]) BY <2>1, <3>2
      <4>4. UpTo(mesg.ts, <<t, cur_cnt + 1>>) = UpTo(mesg.ts, <<t + 1, 0>>)
        BY <1>0, <2>1, <4>3, UpToEnd
      <4> QED BY <4>1, <4>2, <4>4
    <3> QED BY <3>1, <3>2
  <2> QED BY <1>6, <2>1, <2>3, <2>4, <2>5 DEF InFrame
<1>7. CASE IrqSend
  <2>1. cur_t = t /\ cur_cnt \in Nat BY <1>0, <1>7 DEF IrqSend, Turns, TypeOK
  <2>2. <<cur_t, cur_cnt + 1>> = Content(mesg.ts, <<t, cur_cnt + 1>>)
    BY <1>7, <2>1 DEF IrqSend, Content
  <2> QED BY <1>6, <1>7, <2>1, <2>2 DEF IrqSend
<1>8. CASE IrqReceive
  <2>1. cur_t = t /\ cur_cnt \in Nat BY <1>0, <1>8 DEF IrqReceive, Turns, TypeOK
  <2>2. Dummy = Content(mesg.ts, <<t, cur_cnt + 1>>)
    BY <1>8, <2>1 DEF IrqReceive, Content
  <2> QED BY <1>6, <1>8, <2>1, <2>2 DEF IrqReceive
<1>9. CASE Shifted
  <2>1. /\ pc = "sleep" /\ done = 0 /\ irq = FALSE /\ cur_cnt \in Nat
        /\ t \in 1 .. Len(mesg.ts) /\ cur_cnt < Exchanged(mesg.ts[t])
        /\ UNCHANGED <<pc, mesg, t, cur_cnt, done, stored>> /\ irq' = TRUE /\ tdat' = None
        /\ mesg.ts[t].tx \/ mesg.ts[t].rx
        /\ tdat # None /\ tdat = Content(mesg.ts, <<t, cur_cnt>>)
        /\ frame' = Append(frame, tdat) /\ rdat' = Len(frame)
    BY <1>0, <1>9 DEF Shifted, Turns, TypeOK, InFrame
  <2>2. At = <<t, cur_cnt>> /\ At' = <<t, cur_cnt + 1>>
        /\ SeenTo = <<t, cur_cnt>> /\ SeenTo' = <<t, cur_cnt>>
    BY <2>1 DEF At, SeenTo
  <2>3. frame \in Seq((Nat \X Nat) \cup {Dummy}) /\ tdat \in (Nat \X Nat) \cup {Dummy}
    BY <1>0, <2>1 DEF TypeOK
  <2>4. Shown(mesg.ts, frame', UpTo(mesg.ts, <<t, cur_cnt + 1>>))
    BY <1>0, <2>1, <2>2, <2>3, ShownNext DEF InFrame
  <2>5. rdat' + 1 = Len(frame') BY <2>1, <2>3
  <2> QED BY <2>1, <2>2, <2>4, <2>5 DEF InFrame
<1>10. CASE UNCHANGED vars BY <1>10 DEF vars, InFrame, At, SeenTo
<1> QED BY <1>1, <1>2, <1>3, <1>4, <1>5, <1>7, <1>8, <1>9, <1>10 DEF Next, Handler

(* Nothing is selected at first.                                           *)
LEMMA InFrameInitially == Init => InFrame
BY DEF Init, InFrame

(* When a message completes, the chip has seen all of its bytes in order   *)
(* and nothing else but one byte for each empty transfer, and the bytes    *)
(* received are at their places, for any messages of transfers of any      *)
(* length, 0 included.                                                     *)
THEOREM AlwaysFrameIsMessage == Spec => []FrameIsMessage
<1>1. IInv /\ InFrame => FrameIsMessage
  <2> SUFFICES ASSUME IInv, InFrame, pc = "over" PROVE FrameIsMessage
    BY DEF FrameIsMessage
  <2>1. /\ irq = FALSE /\ tdat = None /\ t = Len(mesg.ts) /\ mesg.ts \in Seq(Transfers)
    BY MessageType DEF IInv, InFrame, Turns, TypeOK
  <2>2. UpTo(mesg.ts, At) = BytesOf(mesg.ts) /\ UpTo(mesg.ts, SeenTo) = BytesOf(mesg.ts)
    BY <2>1, UpToEnds DEF At, SeenTo
  <2> QED BY <2>2 DEF InFrame, FrameIsMessage, Shown, Stored, Content
<1>2. IInv /\ InFrame /\ [Next]_vars => (IInv /\ InFrame)' BY Inductive, InFrameStep
<1>3. Init => IInv /\ InFrame BY Initially, InFrameInitially
<1> QED BY <1>1, <1>2, <1>3, PTL DEF Spec
----------------------------------------------------------------------------
(* The DM9000 driver.                                                      *)

Waits == {"flooded", "flooded_wait", "tx_done", "tx_wait"}

Accesses == {"mask", "packet", "start", "unmask", "poll", "reset", "enable", "phy"}

PlacesOK ==
  /\ step \in {"idle", "count", "check", "stop", "select", "access", "started",
               "clear", "wake", "reset", "enabled"}
  /\ reg \in Accesses \cup {"none"}
  /\ step \in {"select", "access"} => reg \in Accesses
  /\ handling \in {"out", "clear", "receive", "leave"} \cup Waits

NumbersOK ==
  /\ seen \in 0 .. 1 /\ tx_pkt_cnt \in 0 .. 2 /\ cont_rx_pkt_cnt \in Nat /\ Speed \in Speeds
  /\ sending \in 0 .. 2 /\ nsr \in 0 .. 2 /\ fifo \in Nat

(* The handler keeps the register that was selected, and gives it back.    *)
Kept == step = "access" => (IF handling = "out" THEN addr ELSE reg_save) = RegOf[reg]

(* An event that may interrupt has, and outside the handler all may but    *)
(* those a flood has masked, except where the softirq level has masked     *)
(* them and is going to unmask them.                                       *)
ToUnmask == \/ step = "started"
            \/ step \in {"select", "access"} /\ reg \in {"packet", "start", "unmask", "enable"}

Unmasked ==
  /\ High(imr, isr) => pending
  /\ handling = "out" /\ ~ToUnmask => /\ {"tx", "link"} \subseteq imr
                                      /\ "rx" \in imr \/ cont_rx_pkt_cnt >= CONT_RX_PKT_CNT

(* The handler leaves when it has looked at everything.                    *)
Agenda == handling = "leave" => "tx" \notin int_status

(* Something makes the handler look at the count of packets and the queue, *)
(* except where the softirq level is going to send a packet or to zero the *)
(* count, and then to wake the queue.                                      *)
TxComing == \/ sending > 0
            \/ "tx" \in isr
            \/ handling \in Waits
            \/ handling # "out" /\ "tx" \in int_status

ToSend == \/ step \in {"count", "check", "stop", "enabled"}
          \/ step \in {"select", "access"} /\ reg \in {"mask", "packet", "start", "enable"}
ToWake == step = "wake" \/ (step \in {"select", "access"} /\ reg \in {"reset", "phy"})

TxLooked ==
  /\ tx_pkt_cnt = 2 /\ ~ToSend => TxComing
  /\ stopped /\ ~ToSend /\ ~ToWake => TxComing
  /\ Speed = 10 /\ ~slowed => /\ tx_pkt_cnt \in 0 .. 1
                              /\ step = "count" => seen = 0
                              /\ tx_pkt_cnt = 1 /\ ~ToSend => TxComing

RxLooked ==
  fifo > 0 /\ ~leftover => \/ "rx" \in isr
                           \/ handling = "receive"
                           \/ handling = "clear" /\ "rx" \in int_status

DmfeInv == PlacesOK /\ NumbersOK /\ Kept /\ Unmasked /\ Agenda /\ TxLooked /\ RxLooked

(* The invariant when the interface has been opened.                       *)
LEMMA DmfeInitially == DmfeInit => DmfeInv
<1> SUFFICES ASSUME DmfeInit PROVE DmfeInv OBVIOUS
<1> USE DEF DmfeInit
<1>1. PlacesOK BY DEF PlacesOK
<1>2. NumbersOK BY DEF NumbersOK
<1>3. Kept /\ Agenda BY DEF Kept, Agenda
<1>4. Unmasked BY DEF Unmasked, ToUnmask, AllEvents, High
<1>5. TxLooked /\ RxLooked BY DEF TxLooked, RxLooked
<1> QED BY <1>1, <1>2, <1>3, <1>4, <1>5 DEF DmfeInv

(* The places of the two levels and the numbers keep their ranges.         *)
LEMMA PlacesStep ==
  ASSUME PlacesOK, [DmfeNext]_dmfe
  PROVE  PlacesOK'
<1> USE Dm9000Assumption
    DEF PlacesOK, Accesses, Waits, softirq, handler, counts, events, txside, tool,
        InSoftirq, Goes, Begins, InAccess
<1>1. CASE Chip
  BY <1>1 DEF Chip, PacketSent, PacketArrives, LinkChanges, Registers, High
<1>2. CASE SelectReg
  BY <1>2 DEF SelectReg
<1>3. CASE StartXmit \/ CountPacket \/ CheckFull
  BY <1>3 DEF StartXmit, CountPacket, CheckFull, Limit
<1>4. CASE StopQueue \/ Mask \/ MovePacket
  BY <1>4 DEF StopQueue, Mask, MovePacket, Registers, High
<1>5. CASE StartSending \/ Started \/ Unmask
  BY <1>5 DEF StartSending, Started, Unmask, Registers, High
<1>6. CASE Timer \/ Timeout \/ Poll
  BY <1>6 DEF Timer, Timeout, Poll
<1>7. CASE ClearCount \/ WakeQueue \/ Reset
  BY <1>7 DEF ClearCount, WakeQueue, Reset
<1>8. CASE SoftwareReset
  BY <1>8 DEF SoftwareReset, ChipReset, Registers, High
<1>9. CASE Enable \/ Enabled \/ ReadSpeed
  BY <1>9 DEF Enable, Enabled, ReadSpeed, Registers, High
<1>10. CASE SystemCall
  BY <1>10 DEF SystemCall, LockedCall, GetLink, GetLinkAccess
<1>11. CASE Enter \/ ClearIsr \/ Leave
  BY <1>11 DEF Enter, ClearIsr, Leave, Handles, Registers, High
<1>12. CASE NoPacket \/ BadPacket \/ NoSkb \/ GoodPacket
  BY <1>12 DEF NoPacket, BadPacket, NoSkb, GoodPacket, Handles
<1>13. CASE RxByteError
  BY <1>13 DEF RxByteError, ChipReset, Handles, Registers, High
<1>14. CASE TxDone \/ TxMiscounted \/ TxWaited
  BY <1>14 DEF TxDone, TxMiscounted, TxWaited, Handles, Called
<1>15. CASE UNCHANGED dmfe
  BY <1>15 DEF dmfe
<1> QED
  BY <1>1, <1>2, <1>3, <1>4, <1>5, <1>6, <1>7, <1>8, <1>9, <1>10, <1>11, <1>12, <1>13,
     <1>14, <1>15
     DEF DmfeNext, Xmit, Timers, Interrupt

LEMMA NumbersStep ==
  ASSUME NumbersOK, [DmfeNext]_dmfe
  PROVE  NumbersOK'
<1> USE Dm9000Assumption
    DEF NumbersOK, Speeds, softirq, handler, counts, events, txside, tool, InSoftirq,
        Goes, Begins, InAccess
<1>1. CASE Chip
  BY <1>1 DEF Chip, PacketSent, PacketArrives, LinkChanges, Registers, High
<1>2. CASE SelectReg
  BY <1>2 DEF SelectReg
<1>3. CASE StartXmit \/ CountPacket \/ CheckFull
  BY <1>3 DEF StartXmit, CountPacket, CheckFull, Limit
<1>4. CASE StopQueue \/ Mask \/ MovePacket
  BY <1>4 DEF StopQueue, Mask, MovePacket, Registers, High
<1>5. CASE StartSending \/ Started \/ Unmask
  BY <1>5 DEF StartSending, Started, Unmask, Registers, High
<1>6. CASE Timer \/ Timeout \/ Poll
  BY <1>6 DEF Timer, Timeout, Poll
<1>7. CASE ClearCount \/ WakeQueue \/ Reset
  BY <1>7 DEF ClearCount, WakeQueue, Reset
<1>8. CASE SoftwareReset
  BY <1>8 DEF SoftwareReset, ChipReset, Registers, High
<1>9. CASE Enable \/ Enabled \/ ReadSpeed
  BY <1>9 DEF Enable, Enabled, ReadSpeed, Registers, High
<1>10. CASE SystemCall
  BY <1>10 DEF SystemCall, LockedCall, GetLink, GetLinkAccess
<1>11. CASE Enter \/ ClearIsr \/ Leave
  BY <1>11 DEF Enter, ClearIsr, Leave, Handles, Registers, High
<1>12. CASE NoPacket \/ BadPacket \/ NoSkb \/ GoodPacket
  BY <1>12 DEF NoPacket, BadPacket, NoSkb, GoodPacket, Handles
<1>13. CASE RxByteError
  BY <1>13 DEF RxByteError, ChipReset, Handles, Registers, High
<1>14. CASE TxDone \/ TxMiscounted \/ TxWaited
  BY <1>14 DEF TxDone, TxMiscounted, TxWaited, Handles, Called
<1>15. CASE UNCHANGED dmfe
  BY <1>15 DEF dmfe
<1> QED
  BY <1>1, <1>2, <1>3, <1>4, <1>5, <1>6, <1>7, <1>8, <1>9, <1>10, <1>11, <1>12, <1>13,
     <1>14, <1>15
     DEF DmfeNext, Xmit, Timers, Interrupt

(* Only the handler comes between the two ports, and it puts the register  *)
(* back.                                                                   *)
LEMMA KeptStep ==
  ASSUME PlacesOK, Kept, [DmfeNext]_dmfe
  PROVE  Kept'
<1> USE Dm9000Assumption
    DEF PlacesOK, Kept, Accesses, Waits, RegOf, softirq, handler, counts, events, txside,
        tool, InSoftirq, Goes, Begins, InAccess
<1>1. CASE Chip
  BY <1>1 DEF Chip, PacketSent, PacketArrives, LinkChanges, Registers, High
<1>2. CASE SelectReg
  BY <1>2 DEF SelectReg
<1>3. CASE StartXmit \/ CountPacket \/ CheckFull
  BY <1>3 DEF StartXmit, CountPacket, CheckFull, Limit
<1>4. CASE StopQueue \/ Mask \/ MovePacket
  BY <1>4 DEF StopQueue, Mask, MovePacket, Registers, High
<1>5. CASE StartSending \/ Started \/ Unmask
  BY <1>5 DEF StartSending, Started, Unmask, Registers, High
<1>6. CASE Timer \/ Timeout \/ Poll
  BY <1>6 DEF Timer, Timeout, Poll
<1>7. CASE ClearCount \/ WakeQueue \/ Reset
  BY <1>7 DEF ClearCount, WakeQueue, Reset
<1>8. CASE SoftwareReset
  BY <1>8 DEF SoftwareReset, ChipReset, Registers, High
<1>9. CASE Enable \/ Enabled \/ ReadSpeed
  BY <1>9 DEF Enable, Enabled, ReadSpeed, Registers, High
<1>10. CASE SystemCall
  BY <1>10 DEF SystemCall, LockedCall, GetLink, GetLinkAccess
<1>11. CASE Enter \/ ClearIsr \/ Leave
  BY <1>11 DEF Enter, ClearIsr, Leave, Handles, Registers, High
<1>12. CASE NoPacket \/ BadPacket \/ NoSkb \/ GoodPacket
  BY <1>12 DEF NoPacket, BadPacket, NoSkb, GoodPacket, Handles
<1>13. CASE RxByteError
  BY <1>13 DEF RxByteError, ChipReset, Handles, Registers, High
<1>14. CASE TxDone \/ TxMiscounted \/ TxWaited
  BY <1>14 DEF TxDone, TxMiscounted, TxWaited, Handles, Called
<1>15. CASE UNCHANGED dmfe
  BY <1>15 DEF dmfe
<1> QED
  BY <1>1, <1>2, <1>3, <1>4, <1>5, <1>6, <1>7, <1>8, <1>9, <1>10, <1>11, <1>12, <1>13,
     <1>14, <1>15
     DEF DmfeNext, Xmit, Timers, Interrupt

(* Every write of IMR or ISR records an edge; who masks is going to        *)
(* unmask.                                                                 *)
LEMMA UnmaskedStep ==
  ASSUME PlacesOK, NumbersOK, Unmasked, [DmfeNext]_dmfe
  PROVE  Unmasked'
<1> USE Dm9000Assumption
    DEF PlacesOK, NumbersOK, Unmasked, ToUnmask, AllEvents, Accesses, Waits, softirq,
        handler, counts, events, txside, tool, InSoftirq, Goes, Begins, InAccess
<1>1. CASE Chip
  BY <1>1 DEF Chip, PacketSent, PacketArrives, LinkChanges, Registers, High
<1>2. CASE SelectReg
  BY <1>2 DEF SelectReg
<1>3. CASE StartXmit \/ CountPacket \/ CheckFull
  BY <1>3 DEF StartXmit, CountPacket, CheckFull, Limit
<1>4. CASE StopQueue \/ Mask \/ MovePacket
  BY <1>4 DEF StopQueue, Mask, MovePacket, Registers, High
<1>5. CASE StartSending \/ Started \/ Unmask
  BY <1>5 DEF StartSending, Started, Unmask, Registers, High
<1>6. CASE Timer \/ Timeout \/ Poll
  BY <1>6 DEF Timer, Timeout, Poll
<1>7. CASE ClearCount \/ WakeQueue \/ Reset
  BY <1>7 DEF ClearCount, WakeQueue, Reset
<1>8. CASE SoftwareReset
  BY <1>8 DEF SoftwareReset, ChipReset, Registers, High
<1>9. CASE Enable \/ Enabled \/ ReadSpeed
  BY <1>9 DEF Enable, Enabled, ReadSpeed, Registers, High
<1>10. CASE SystemCall
  BY <1>10 DEF SystemCall, LockedCall, GetLink, GetLinkAccess
<1>11. CASE Enter \/ ClearIsr \/ Leave
  BY <1>11 DEF Enter, ClearIsr, Leave, Handles, Registers, High
<1>12. CASE NoPacket \/ BadPacket \/ NoSkb \/ GoodPacket
  BY <1>12 DEF NoPacket, BadPacket, NoSkb, GoodPacket, Handles
<1>13. CASE RxByteError
  BY <1>13 DEF RxByteError, ChipReset, Handles, Registers, High
<1>14. CASE TxDone \/ TxMiscounted \/ TxWaited
  BY <1>14 DEF TxDone, TxMiscounted, TxWaited, Handles, Called
<1>15. CASE UNCHANGED dmfe
  BY <1>15 DEF dmfe
<1> QED
  BY <1>1, <1>2, <1>3, <1>4, <1>5, <1>6, <1>7, <1>8, <1>9, <1>10, <1>11, <1>12, <1>13,
     <1>14, <1>15
     DEF DmfeNext, Xmit, Timers, Interrupt

(* It does not leave with a packet's event in hand.                        *)
LEMMA AgendaStep ==
  ASSUME Agenda, [DmfeNext]_dmfe
  PROVE  Agenda'
<1> USE Dm9000Assumption
    DEF Agenda, softirq, handler, counts, events, txside, tool, InSoftirq, Goes, Begins,
        InAccess
<1>1. CASE Chip
  BY <1>1 DEF Chip, PacketSent, PacketArrives, LinkChanges, Registers, High
<1>2. CASE SelectReg
  BY <1>2 DEF SelectReg
<1>3. CASE StartXmit \/ CountPacket \/ CheckFull
  BY <1>3 DEF StartXmit, CountPacket, CheckFull, Limit
<1>4. CASE StopQueue \/ Mask \/ MovePacket
  BY <1>4 DEF StopQueue, Mask, MovePacket, Registers, High
<1>5. CASE StartSending \/ Started \/ Unmask
  BY <1>5 DEF StartSending, Started, Unmask, Registers, High
<1>6. CASE Timer \/ Timeout \/ Poll
  BY <1>6 DEF Timer, Timeout, Poll
<1>7. CASE ClearCount \/ WakeQueue \/ Reset
  BY <1>7 DEF ClearCount, WakeQueue, Reset
<1>8. CASE SoftwareReset
  BY <1>8 DEF SoftwareReset, ChipReset, Registers, High
<1>9. CASE Enable \/ Enabled \/ ReadSpeed
  BY <1>9 DEF Enable, Enabled, ReadSpeed, Registers, High
<1>10. CASE SystemCall
  BY <1>10 DEF SystemCall, LockedCall, GetLink, GetLinkAccess
<1>11. CASE Enter \/ ClearIsr \/ Leave
  BY <1>11 DEF Enter, ClearIsr, Leave, Handles, Registers, High
<1>12. CASE NoPacket \/ BadPacket \/ NoSkb \/ GoodPacket
  BY <1>12 DEF NoPacket, BadPacket, NoSkb, GoodPacket, Handles
<1>13. CASE RxByteError
  BY <1>13 DEF RxByteError, ChipReset, Handles, Registers, High
<1>14. CASE TxDone \/ TxMiscounted \/ TxWaited
  BY <1>14 DEF TxDone, TxMiscounted, TxWaited, Handles, Called
<1>15. CASE UNCHANGED dmfe
  BY <1>15 DEF dmfe
<1> QED
  BY <1>1, <1>2, <1>3, <1>4, <1>5, <1>6, <1>7, <1>8, <1>9, <1>10, <1>11, <1>12, <1>13,
     <1>14, <1>15
     DEF DmfeNext, Xmit, Timers, Interrupt

(* The count that is not marked after a step was not marked before it, at  *)
(* the same speed, or it is 0 and nobody is about to store another.        *)
LEMMA SlowsUp ==
  ASSUME NumbersOK, Slows, Speed' = 10, ~slowed'
  PROVE  \/ Speed = 10 /\ ~slowed
         \/ ~(tx_pkt_cnt' > 0) /\ ~(step' = "count" /\ seen' > 0)
<1>1. ~((Speed = 100 \/ slowed) /\ (tx_pkt_cnt' > 0 \/ (step' = "count" /\ seen' > 0)))
  BY Zenon DEF Slows
<1>2. Speed = 10 \/ Speed = 100 BY DEF NumbersOK, Speeds
<1> QED BY <1>1, <1>2

(* The count grows only on the way to the chip, and the queue stops only   *)
(* there or in a reset.                                                    *)
LEMMA TxStep ==
  ASSUME PlacesOK, NumbersOK, Agenda, TxLooked, [DmfeNext]_dmfe
  PROVE  TxLooked'
<1> USE Dm9000Assumption
    DEF PlacesOK, NumbersOK, Agenda, TxLooked, TxComing, ToSend, ToWake, Accesses, Waits,
        Speeds, softirq, handler, counts, events, txside, tool, InSoftirq, Goes, Begins,
        InAccess
<1> DEFINE Marks == Speed' = 10 /\ ~slowed' =>
                      \/ Speed = 10 /\ ~slowed
                      \/ ~(tx_pkt_cnt' > 0) /\ ~(step' = "count" /\ seen' > 0)
<1>0. Slows => Marks BY SlowsUp
<1>a. NumbersOK' BY NumbersStep
<1>1. CASE Chip /\ Slows
  BY <1>0, <1>a, <1>1 DEF Chip, PacketSent, PacketArrives, LinkChanges, Registers, High
<1>2. CASE SelectReg /\ Slows
  BY <1>0, <1>a, <1>2 DEF SelectReg
<1>3. CASE (StartXmit \/ CountPacket \/ CheckFull) /\ Slows
  BY <1>0, <1>a, <1>3 DEF StartXmit, CountPacket, CheckFull, Limit
<1>4. CASE (StopQueue \/ Mask \/ MovePacket) /\ Slows
  BY <1>0, <1>a, <1>4 DEF StopQueue, Mask, MovePacket, Registers, High
<1>5. CASE (StartSending \/ Started \/ Unmask) /\ Slows
  BY <1>0, <1>a, <1>5 DEF StartSending, Started, Unmask, Registers, High
<1>6. CASE (Timer \/ Timeout \/ Poll) /\ Slows
  BY <1>0, <1>a, <1>6 DEF Timer, Timeout, Poll
<1>7. CASE (ClearCount \/ WakeQueue \/ Reset) /\ Slows
  BY <1>0, <1>a, <1>7 DEF ClearCount, WakeQueue, Reset
<1>8. CASE SoftwareReset /\ Slows
  BY <1>0, <1>a, <1>8 DEF SoftwareReset, ChipReset, Registers, High
<1>9. CASE (Enable \/ Enabled \/ ReadSpeed) /\ Slows
  BY <1>0, <1>a, <1>9 DEF Enable, Enabled, ReadSpeed, Registers, High
<1>10. CASE SystemCall /\ Slows
  BY <1>0, <1>a, <1>10 DEF SystemCall, LockedCall, GetLink, GetLinkAccess
<1>11. CASE (Enter \/ ClearIsr \/ Leave) /\ Slows
  BY <1>0, <1>a, <1>11 DEF Enter, ClearIsr, Leave, Handles, Registers, High
<1>12. CASE (NoPacket \/ BadPacket \/ NoSkb \/ GoodPacket) /\ Slows
  BY <1>0, <1>a, <1>12 DEF NoPacket, BadPacket, NoSkb, GoodPacket, Handles
<1>13. CASE RxByteError /\ Slows
  BY <1>0, <1>a, <1>13 DEF RxByteError, ChipReset, Handles, Registers, High
<1>14. CASE (TxDone \/ TxMiscounted \/ TxWaited) /\ Slows
  BY <1>0, <1>a, <1>14 DEF TxDone, TxMiscounted, TxWaited, Handles, Called
<1>15. CASE UNCHANGED dmfe
  BY <1>15 DEF dmfe
<1> QED
  BY <1>1, <1>2, <1>3, <1>4, <1>5, <1>6, <1>7, <1>8, <1>9, <1>10, <1>11, <1>12, <1>13,
     <1>14, <1>15
     DEF DmfeNext, Xmit, Timers, Interrupt

(* The handler forgets the event of a packet with the last packet, or      *)
(* leaves some on purpose.                                                 *)
LEMMA RxStep ==
  ASSUME NumbersOK, RxLooked, [DmfeNext]_dmfe
  PROVE  RxLooked'
<1> USE Dm9000Assumption
    DEF NumbersOK, RxLooked, softirq, handler, counts, events, txside, tool, InSoftirq,
        Goes, Begins, InAccess
<1>1. CASE Chip
  BY <1>1 DEF Chip, PacketSent, PacketArrives, LinkChanges, Registers, High
<1>2. CASE SelectReg
  BY <1>2 DEF SelectReg
<1>3. CASE StartXmit \/ CountPacket \/ CheckFull
  BY <1>3 DEF StartXmit, CountPacket, CheckFull, Limit
<1>4. CASE StopQueue \/ Mask \/ MovePacket
  BY <1>4 DEF StopQueue, Mask, MovePacket, Registers, High
<1>5. CASE StartSending \/ Started \/ Unmask
  BY <1>5 DEF StartSending, Started, Unmask, Registers, High
<1>6. CASE Timer \/ Timeout \/ Poll
  BY <1>6 DEF Timer, Timeout, Poll
<1>7. CASE ClearCount \/ WakeQueue \/ Reset
  BY <1>7 DEF ClearCount, WakeQueue, Reset
<1>8. CASE SoftwareReset
  BY <1>8 DEF SoftwareReset, ChipReset, Registers, High
<1>9. CASE Enable \/ Enabled \/ ReadSpeed
  BY <1>9 DEF Enable, Enabled, ReadSpeed, Registers, High
<1>10. CASE SystemCall
  BY <1>10 DEF SystemCall, LockedCall, GetLink, GetLinkAccess
<1>11. CASE Enter \/ ClearIsr \/ Leave
  BY <1>11 DEF Enter, ClearIsr, Leave, Handles, Registers, High
<1>12. CASE NoPacket \/ BadPacket \/ NoSkb \/ GoodPacket
  <2>1. CASE NoPacket \/ BadPacket \/ NoSkb
    BY <2>1 DEF NoPacket, BadPacket, NoSkb, Handles
  <2>2. CASE GoodPacket
    <3>1. CASE cont_rx_pkt_cnt' >= CONT_RX_PKT_CNT
      <4>1. leftover' = (fifo' > 0) BY <2>2, <3>1 DEF GoodPacket
      <4> QED BY <4>1, Zenon DEF RxLooked
    <3>2. CASE ~(cont_rx_pkt_cnt' >= CONT_RX_PKT_CNT) BY <2>2, <3>2 DEF GoodPacket
    <3> QED BY <3>1, <3>2
  <2> QED BY <1>12, <2>1, <2>2
<1>13. CASE RxByteError
  BY <1>13 DEF RxByteError, ChipReset, Handles, Registers, High
<1>14. CASE TxDone \/ TxMiscounted \/ TxWaited
  BY <1>14 DEF TxDone, TxMiscounted, TxWaited, Handles, Called
<1>15. CASE UNCHANGED dmfe
  BY <1>15 DEF dmfe
<1> QED
  BY <1>1, <1>2, <1>3, <1>4, <1>5, <1>6, <1>7, <1>8, <1>9, <1>10, <1>11, <1>12, <1>13,
     <1>14, <1>15
     DEF DmfeNext, Xmit, Timers, Interrupt

(* DmfeInv holds in every state.                                           *)
LEMMA DmfeAlways == DmfeSpec => []DmfeInv
<1>1. DmfeInv /\ [DmfeNext]_dmfe => DmfeInv'
  BY PlacesStep, NumbersStep, KeptStep, UnmaskedStep, AgendaStep, TxStep,
     RxStep DEF DmfeInv
<1> QED BY DmfeInitially, <1>1, PTL DEF DmfeSpec

(* Whatever interrupts the softirq level between the two ports, it         *)
(* accesses the register that it has selected: the handler puts the number *)
(* back (dmfe_interrupt).                                                  *)
THEOREM AlwaysRightRegister == DmfeSpec => []RightRegister
<1>1. DmfeInv => RightRegister BY DEF DmfeInv, Kept, RightRegister, InSoftirq
<1> QED BY <1>1, DmfeAlways, PTL

(* No interrupt is lost, for any number of packets that mask "rx": whoever *)
(* masks the events unmasks them, and each writing of IMR that lets one    *)
(* through is an edge.                                                     *)
THEOREM AlwaysInterruptComes == DmfeSpec => []InterruptComes
<1>1. DmfeInv => InterruptComes BY DEF DmfeInv, Unmasked, InterruptComes, ToUnmask, Quiet
<1> QED BY <1>1, DmfeAlways, PTL

(* When the driver takes no more packets, at either speed of the link, a   *)
(* packet is being sent or its event is still to be handled, so that the   *)
(* count and the queue are looked at again; a count that was marked when   *)
(* the link became slow is followed from 2 on.                             *)
THEOREM AlwaysTxGoesOn == DmfeSpec => []TxGoesOn
<1>1. DmfeInv => TxGoesOn
  BY DEF DmfeInv, NumbersOK, TxLooked, TxComing, ToSend, ToWake, Waits, TxGoesOn, Quiet,
     Limit, Speeds
<1> QED BY <1>1, DmfeAlways, PTL

(* A packet that waits in the chip is recorded in ISR unless the handler   *)
(* has seen it and left it there, for any number of packets that wait.     *)
THEOREM AlwaysRxComes == DmfeSpec => []RxComes
<1>1. DmfeInv => RxComes BY DEF DmfeInv, RxLooked, RxComes
<1> QED BY <1>1, DmfeAlways, PTL
============================================================================
