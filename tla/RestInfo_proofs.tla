-------------------------- MODULE RestInfo_proofs --------------------------
(***************************************************************************)
(* Theorems about RestInfo: who owns the arrays of a gateway's struct, for *)
(* any answers, any width of int and any number of calls.                  *)
(***************************************************************************)
EXTENDS RestInfo, TLAPS

Typed ==
    /\ reads \in Nat
    /\ idle \in BOOLEAN /\ twice \in BOOLEAN /\ overwritten \in BOOLEAN
    /\ wild \in BOOLEAN

(* What is allocated is what the struct points to. *)
Owned == \A x \in heap : x \in Held

(* Between a read and its free the struct points to what is allocated; and *)
(* as long as every read was freed, to all of it, and to nothing after.    *)
OwnInv ==
    /\ Typed
    /\ CountsAreOfArrays
    /\ ~overwritten => Owned /\ (idle => heap = {})
    /\ FreedOnce

LEMMA OwnInit == Init => OwnInv
<1> SUFFICES ASSUME Init PROVE OwnInv
  OBVIOUS
<1>1. Typed /\ heap = {} /\ idle /\ ~wild
  BY DEF Init, Typed
<1> QED
  BY <1>1 DEF OwnInv, CountsAreOfArrays, FreedOnce, Owned

(* What a gateway's struct points to. *)
LEMMA HeldMember ==
    \A x : x \in Held <=>
        \E a \in Arrays : x = <<a, gateway.at[a]>> /\ gateway.at[a] # 0
BY DEF Held

LEMMA CountsHold == CountsAreOfArrays /\ ~idle => Held \subseteq heap
BY HeldMember DEF CountsAreOfArrays

(* What a read leaves in the struct and on the heap. *)
LEMMA ReadOutcome ==
    ASSUME Typed, ReadGateway
    PROVE  /\ \A a \in Arrays :
                 IF gateway'.at[a] = 0 THEN gateway'.nr[a] = 0
                 ELSE <<a, gateway'.at[a]>> \in heap'
           /\ \A x \in heap' : x \in heap \/ x \in Held'
<1>r. reads' \in Nat /\ reads' # 0
  BY DEF ReadGateway, Reading, Typed
<1>1. CASE GatewayFails
  BY <1>1 DEF GatewayFails, EmptyGateway, Zero
<1>2. ASSUME NEW answer \in Answers({"name", "mtime", "model"} \cup Arrays),
             gateway' = GatewayInfo(answer),
             heap' = heap \cup (Allocated(answer) \X {reads'})
      PROVE  /\ \A a \in Arrays :
                   IF gateway'.at[a] = 0 THEN gateway'.nr[a] = 0
                   ELSE <<a, gateway'.at[a]>> \in heap'
             /\ \A x \in heap' : x \in heap \/ x \in Held'
  <2>1. \A a \in Arrays :
           /\ gateway'.at[a] = IF a \in Allocated(answer) THEN reads' ELSE 0
           /\ gateway'.nr[a] = IF a \in answer.keys THEN answer.nr[a] ELSE 0
    BY <1>2 DEF GatewayInfo
  <2>2. \A a \in Arrays : answer.nr[a] \in Nat
    BY TimesAssumption DEF Answers, Arrays
  <2>3. \A a \in Arrays :
           a \in answer.keys /\ a \notin Allocated(answer)
              => answer.nr[a] = 0
    BY <2>2 DEF Allocated, Arrays
  <2>4. \A a \in Allocated(answer) :
           a \in Arrays /\ <<a, reads'>> \in heap'
    BY <1>2 DEF Allocated
  <2>5. \A a \in Arrays :
           IF gateway'.at[a] = 0 THEN gateway'.nr[a] = 0
           ELSE <<a, gateway'.at[a]>> \in heap'
    BY <1>r, <2>1, <2>3, <2>4
  <2>6. ASSUME NEW x \in heap', x \notin heap PROVE x \in Held'
    <3>1. PICK a \in Allocated(answer) : x = <<a, reads'>>
      BY <1>2, <2>6
    <3> QED
      BY <1>r, <2>1, <2>4, <3>1 DEF Held
  <2> QED
    BY <2>5, <2>6
<1> QED
  BY <1>1, <1>2 DEF ReadGateway, Reading

LEMMA OwnStep == OwnInv /\ [Next]_vars => OwnInv'
<1> SUFFICES ASSUME OwnInv, [Next]_vars PROVE OwnInv'
  OBVIOUS
<1>1. CASE ReadDevice \/ ReadSensor
  <2>1. /\ reads' = reads + 1
        /\ UNCHANGED <<gateway, heap, idle, overwritten, twice, wild>>
    BY <1>1 DEF ReadDevice, ReadSensor, Reading
  <2> QED
    BY <2>1
       DEF OwnInv, Typed, CountsAreOfArrays, Owned, Held, FreedOnce
<1>2. CASE ReadGateway
  <2>1. /\ reads' = reads + 1 /\ ~wild /\ idle' = FALSE
        /\ UNCHANGED <<twice, wild>>
        /\ overwritten' = (overwritten \/ ~idle)
    BY <1>2 DEF ReadGateway, Reading
  <2>2. Typed'
    <3>1. overwritten' \in BOOLEAN
      <4>1. CASE overwritten \/ ~idle
        BY <2>1, <4>1
      <4>2. CASE ~(overwritten \/ ~idle)
        BY <2>1, <4>2
      <4> QED
        BY <4>1, <4>2
    <3>2. idle' \in BOOLEAN
      BY <2>1
    <3>3. reads' = reads + 1 /\ twice' = twice /\ wild' = wild
      BY <2>1
    <3> QED
      BY <3>1, <3>2, <3>3 DEF OwnInv, Typed
  <2>3. CountsAreOfArrays'
    BY <1>2, ReadOutcome DEF CountsAreOfArrays, OwnInv
  <2>4. ASSUME ~overwritten' PROVE Owned'
    <3>1. heap = {}
      BY <2>1, <2>4 DEF OwnInv, Typed
    <3> QED
      BY <1>2, <3>1, ReadOutcome DEF Owned, OwnInv
  <2> QED
    BY <2>1, <2>2, <2>3, <2>4 DEF OwnInv, FreedOnce
<1>3. CASE FreeGateway
  <2>1. /\ UNCHANGED <<gateway, reads, overwritten>> /\ ~wild
        /\ idle' = TRUE /\ twice' = (twice \/ idle)
        /\ \/ Held \subseteq heap /\ heap' = heap \ Held /\ wild' = wild
           \/ ~(Held \subseteq heap) /\ heap' = heap /\ wild' = TRUE
    BY <1>3 DEF FreeGateway
  <2>2. Typed' /\ CountsAreOfArrays'
    BY <2>1 DEF OwnInv, Typed, CountsAreOfArrays
  <2>3. FreedOnce'
    BY <2>1, CountsHold DEF OwnInv, Typed, FreedOnce
  <2>4. ASSUME ~overwritten' PROVE heap' = {}
    <3>1. \A x \in heap : x \in Held
      BY <2>1, <2>4 DEF OwnInv, Owned
    <3>2. CASE idle
      BY <2>1, <2>4, <3>2 DEF OwnInv
    <3>3. CASE ~idle
      BY <2>1, <3>1, <3>3, CountsHold DEF OwnInv
    <3> QED
      BY <3>2, <3>3 DEF OwnInv, Typed
  <2> QED
    BY <2>2, <2>3, <2>4 DEF OwnInv, Owned
<1>4. CASE UNCHANGED vars
  BY <1>4
     DEF vars, structs, OwnInv, Typed, CountsAreOfArrays, Owned, Held,
         FreedOnce
<1> QED
  BY <1>1, <1>2, <1>3, <1>4 DEF Next

LEMMA OwnInvariant == Spec => []OwnInv
BY OwnInit, OwnStep, PTL DEF Spec

(* While a gateway's struct has not been freed its counts say how many     *)
(* entries its arrays have, after a failed read too (rest.c:115-151, 619). *)
THEOREM CountsMatch == Spec => []CountsAreOfArrays
<1>1. OwnInv => CountsAreOfArrays
  BY DEF OwnInv
<1> QED
  BY OwnInvariant, <1>1, PTL

(* An array is freed twice only by freeing the same struct twice without a *)
(* read in between (rest.c:153-173, 614-640).                              *)
THEOREM NoDoubleFree == Spec => []FreedOnce
<1>1. OwnInv => FreedOnce
  BY DEF OwnInv
<1> QED
  BY OwnInvariant, <1>1, PTL

(* No array is lost unless the struct was read again before it was freed   *)
(* (rest.c:153-173).                                                       *)
THEOREM NoLeak == Spec => []NothingLeaks
<1>1. OwnInv => NothingLeaks
  BY DEF OwnInv, Owned, NothingLeaks
<1> QED
  BY OwnInvariant, <1>1, PTL

-----------------------------------------------------------------------------
(* What an int holds is in its range, and is the number when it fits. *)
LEMMA ToIntRange == \A x \in Nat : ToInt(x) \in Ints
<1> SUFFICES ASSUME NEW x \in Nat PROVE ToInt(x) \in Ints
  OBVIOUS
<1> DEFINE W == 2 * (IntMax + 1)
<1>1. W \in Nat \ {0} /\ x + IntMax + 1 \in Nat /\ IntMax \in Nat
  BY BoundsAssumption
<1>2. (x + IntMax + 1) % W \in 0 .. W - 1
  BY <1>1
<1> QED
  BY <1>1, <1>2 DEF ToInt, Ints

LEMMA ToIntFits == \A x \in Nat : FitsInt(x) => ToInt(x) = x
<1> SUFFICES ASSUME NEW x \in Nat, FitsInt(x) PROVE ToInt(x) = x
  OBVIOUS
<1> DEFINE W == 2 * (IntMax + 1)
           y == x + IntMax + 1
<1>1. W \in Nat \ {0} /\ y \in Nat /\ y < W /\ IntMax \in Nat
  BY BoundsAssumption DEF FitsInt
<1>2. y % W = y
  <2> HIDE DEF W, y
  <2> QED
    BY <1>1
<1> QED
  BY <1>1, <1>2 DEF ToInt

(* A parsed time is an int, and the time that was sent if it fits. *)
LEMMA TimeParsed ==
    ASSUME NEW answer, answer.time \in Times
    PROVE  Int64Parse(answer) \in Ints /\ TimeOf(answer, Int64Parse(answer))
<1>1. answer.time \in Nat
  BY TimesAssumption
<1>2. Absent \in Ints
  BY BoundsAssumption DEF Absent, Ints
<1> QED
  BY <1>1, <1>2, ToIntRange, ToIntFits DEF Int64Parse, TimeOf

(* Only the part of a sensor before its owner is cleared. *)
LEMMA SensorCleared ==
    /\ Cleared("id") = Zero /\ Cleared("type") = Zero
    /\ Cleared("owner") = sensor.owner
BY DEF Cleared, SensorOffset, DeviceSize, NameLength

-----------------------------------------------------------------------------
(* What a read leaves in the structs comes from its own answer. *)
LEMMA InfoStep == InfoIsOfThisAnswer /\ [Next]_vars => InfoIsOfThisAnswer'
<1> SUFFICES ASSUME InfoIsOfThisAnswer, [Next]_vars
             PROVE  InfoIsOfThisAnswer'
  OBVIOUS
<1>1. CASE ReadDevice
  <2>1. CASE Fails("device")
    BY <2>1 DEF Fails, InfoIsOfThisAnswer
  <2>2. ASSUME NEW answer \in Answers({"name", "mtime"}),
               Succeeds("device", answer), device' = DeviceInfo(answer)
        PROVE  InfoIsOfThisAnswer'
    <3>1. TimeOf(answer, Int64Parse(answer))
      BY TimeParsed DEF Answers
    <3>2. /\ last'.what = "device" /\ last'.answer = answer
          /\ device'.mtime = Int64Parse(answer)
          /\ device'.name = IF "name" \in answer.keys THEN reads' ELSE Zero
      BY <2>2 DEF Succeeds, DeviceInfo, StringParse
    <3> QED
      BY <3>1, <3>2 DEF InfoIsOfThisAnswer, TimeOf
  <2> QED
    BY <1>1, <2>1, <2>2 DEF ReadDevice
<1>2. CASE ReadSensor
  <2>1. CASE Fails("sensor")
    BY <2>1 DEF Fails, InfoIsOfThisAnswer
  <2>2. ASSUME NEW answer \in Answers({"id", "type", "owner", "mtime"}),
               Succeeds("sensor", answer), sensor' = SensorInfo(answer)
        PROVE  InfoIsOfThisAnswer'
    <3>1. TimeOf(answer, Int64Parse(answer))
      BY TimeParsed DEF Answers
    <3>2. /\ last'.what = "sensor" /\ last'.answer = answer
          /\ sensor'.mtime = Int64Parse(answer)
          /\ sensor'.id = IF "id" \in answer.keys THEN reads' ELSE Zero
          /\ sensor'.type = IF "type" \in answer.keys THEN reads' ELSE Zero
          /\ sensor'.owner = IF "owner" \in answer.keys THEN reads'
                             ELSE sensor.owner
      BY <2>2, SensorCleared DEF Succeeds, SensorInfo, StringParse
    <3>3. kept' = sensor
      BY <1>2 DEF ReadSensor, Reading
    <3> QED
      BY <3>1, <3>2, <3>3 DEF InfoIsOfThisAnswer, TimeOf
  <2> QED
    BY <1>2, <2>1, <2>2 DEF ReadSensor
<1>3. CASE ReadGateway
  <2>1. CASE Fails("gateway")
    BY <2>1 DEF Fails, InfoIsOfThisAnswer
  <2>2. ASSUME NEW answer \in Answers({"name", "mtime", "model"} \cup Arrays),
               Succeeds("gateway", answer), gateway' = GatewayInfo(answer)
        PROVE  InfoIsOfThisAnswer'
    <3>1. TimeOf(answer, Int64Parse(answer))
      BY TimeParsed DEF Answers
    <3>2. /\ last'.what = "gateway" /\ last'.answer = answer
          /\ gateway'.mtime = Int64Parse(answer)
          /\ gateway'.name = IF "name" \in answer.keys THEN reads' ELSE Zero
      BY <2>2 DEF Succeeds, GatewayInfo, StringParse
    <3> QED
      BY <3>1, <3>2 DEF InfoIsOfThisAnswer, TimeOf
  <2> QED
    BY <1>3, <2>1, <2>2 DEF ReadGateway
<1>4. CASE FreeGateway
  <2>1. last'.what = "free"
    BY <1>4 DEF FreeGateway
  <2> QED
    BY <2>1 DEF InfoIsOfThisAnswer
<1>5. CASE UNCHANGED vars
  BY <1>5 DEF vars, structs, InfoIsOfThisAnswer, TimeOf
<1> QED
  BY <1>1, <1>2, <1>3, <1>4, <1>5 DEF Next

(* After a successful read what a struct says is from this answer or empty *)
(* (the owner of a sensor: as it was), and a time that fits an int is the  *)
(* one that was sent, for every INT_MAX (rest.c:480-526).                  *)
THEOREM InfoIsFresh == Spec => []InfoIsOfThisAnswer
<1>1. Init => InfoIsOfThisAnswer
  BY DEF Init, InfoIsOfThisAnswer
<1> QED
  BY <1>1, InfoStep, PTL DEF Spec

-----------------------------------------------------------------------------
(* The type invariant, struct by struct. *)
Fields == Numbers \cup {Garbage}

LEMMA ParsedTyped ==
    ASSUME TypeOK, reads < MaxReads, reads' = reads + 1
    PROVE  /\ reads' \in 1 .. MaxReads /\ reads' \in Numbers
           /\ Zero \in Numbers /\ Zero \in Ints /\ Garbage \in Ints
           /\ \A answer, key : IntParse(answer, key) \in Numbers \cup {Absent}
           /\ \A answer, key : \A dest \in Fields :
                 StringParse(answer, key, dest) \in Fields
<1>1. /\ reads' \in 1 .. MaxReads /\ reads' \in Numbers
      /\ Zero \in Numbers /\ Zero \in Ints /\ Garbage \in Ints
  BY BoundsAssumption DEF TypeOK, Numbers, Zero, Garbage, Ints
<1> QED
  BY <1>1 DEF IntParse, StringParse, Fields

LEMMA SensorTyped ==
    sensor \in [id : Fields, type : Fields, owner : Fields, mtime : Ints]
        => sensor.owner \in Fields
OBVIOUS

LEMMA GatewayTyped ==
    ASSUME TypeOK, reads < MaxReads, reads' = reads + 1,
           NEW answer \in Answers({"name", "mtime", "model"} \cup Arrays)
    PROVE  /\ GatewayInfo(answer) \in
                 [name : Fields, mtime : Ints,
                  model : Numbers \cup {Garbage, Absent},
                  at : [Arrays -> Fields],
                  nr : [Arrays -> Lengths \cup {Garbage, Zero}]]
           /\ Allocated(answer) \X {reads'} \subseteq Arrays \X (1 .. MaxReads)
<1>1. /\ Int64Parse(answer) \in Ints
      /\ \A a \in Arrays \cap answer.keys : answer.nr[a] \in Lengths
  BY TimeParsed DEF Answers
<1>2. /\ reads' \in 1 .. MaxReads /\ reads' \in Numbers /\ Zero \in Numbers
      /\ StringParse(answer, "name", Zero) \in Fields
      /\ IntParse(answer, "model") \in Numbers \cup {Garbage, Absent}
  BY ParsedTyped DEF Fields
<1>3. [a \in Arrays |-> IF a \in Allocated(answer) THEN reads' ELSE 0]
         \in [Arrays -> Fields]
  BY <1>2 DEF Fields, Zero
<1>4. [a \in Arrays |-> IF a \in answer.keys THEN answer.nr[a] ELSE 0]
         \in [Arrays -> Lengths \cup {Garbage, Zero}]
  BY <1>1 DEF Zero
<1>5. Allocated(answer) \subseteq Arrays
  BY DEF Allocated
<1> QED
  BY <1>1, <1>2, <1>3, <1>4, <1>5 DEF GatewayInfo

LEMMA TypeStep == TypeOK /\ Typed /\ [Next]_vars => TypeOK'
<1> SUFFICES ASSUME TypeOK, Typed, [Next]_vars PROVE TypeOK'
  OBVIOUS
<1>r. ASSUME Reading
      PROVE  /\ reads' \in 1 .. MaxReads /\ reads' \in Numbers
             /\ UNCHANGED <<frees, twice, wild>>
  BY <1>r, ParsedTyped DEF Reading
<1>1. CASE ReadDevice
  <2>1. device' \in [name : Fields, mtime : Ints]
    <3>1. CASE UNCHANGED device
      BY <3>1 DEF TypeOK, Fields
    <3>2. ASSUME NEW answer \in Answers({"name", "mtime"}),
                 device' = DeviceInfo(answer)
          PROVE  device' \in [name : Fields, mtime : Ints]
      <4>1. Int64Parse(answer) \in Ints
        BY TimeParsed DEF Answers
      <4>2. StringParse(answer, "name", Zero) \in Fields
        BY <1>1, ParsedTyped DEF ReadDevice, Reading, Fields
      <4> QED
        BY <3>2, <4>1, <4>2 DEF DeviceInfo
    <3> QED
      BY <1>1, <3>1, <3>2 DEF ReadDevice
  <2>2. last'.what = "device" /\ last'.ret \in {0, -1}
    BY <1>1 DEF ReadDevice, Fails, Succeeds
  <2>3. UNCHANGED <<sensor, gateway, heap, idle, overwritten>> /\ Reading
    BY <1>1 DEF ReadDevice
  <2> QED
    BY <1>r, <2>1, <2>2, <2>3 DEF TypeOK, Fields
<1>2. CASE ReadSensor
  <2>1. sensor' \in [id : Fields, type : Fields, owner : Fields, mtime : Ints]
    <3>1. CASE UNCHANGED sensor
      BY <3>1 DEF TypeOK, Fields
    <3>2. ASSUME NEW answer \in Answers({"id", "type", "owner", "mtime"}),
                 sensor' = SensorInfo(answer)
          PROVE  sensor' \in
                    [id : Fields, type : Fields, owner : Fields, mtime : Ints]
      <4>1. Int64Parse(answer) \in Ints
        BY TimeParsed DEF Answers
      <4>2. \A key : \A dest \in Fields :
               StringParse(answer, key, dest) \in Fields
        BY <1>2, ParsedTyped DEF ReadSensor, Reading
      <4>3. Zero \in Fields
        BY <1>2, ParsedTyped DEF ReadSensor, Reading, Fields
      <4>4. sensor.owner \in Fields
        BY SensorTyped DEF TypeOK, Fields
      <4> QED
        BY <3>2, <4>1, <4>2, <4>3, <4>4, SensorCleared DEF SensorInfo
    <3> QED
      BY <1>2, <3>1, <3>2 DEF ReadSensor
  <2>2. last'.what = "sensor" /\ last'.ret \in {0, -1}
    BY <1>2 DEF ReadSensor, Fails, Succeeds
  <2>3. UNCHANGED <<device, gateway, heap, idle, overwritten>> /\ Reading
    BY <1>2 DEF ReadSensor
  <2> QED
    BY <1>r, <2>1, <2>2, <2>3 DEF TypeOK, Fields
<1>3. CASE ReadGateway
  <2> DEFINE Gateways == [name : Fields, mtime : Ints,
                          model : Numbers \cup {Garbage, Absent},
                          at : [Arrays -> Fields],
                          nr : [Arrays -> Lengths \cup {Garbage, Zero}]]
  <2>0. reads < MaxReads /\ reads' = reads + 1 /\ Reading
    BY <1>3 DEF ReadGateway, Reading
  <2>1. gateway' \in Gateways /\ heap' \subseteq Arrays \X (1 .. MaxReads)
    <3>1. CASE GatewayFails
      <4>1. Zero \in Fields /\ Zero \in Numbers /\ Zero \in Ints
        BY <2>0, ParsedTyped DEF Fields
      <4> QED
        BY <3>1, <4>1 DEF GatewayFails, EmptyGateway, TypeOK
    <3>2. ASSUME NEW answer \in
                     Answers({"name", "mtime", "model"} \cup Arrays),
                 gateway' = GatewayInfo(answer),
                 heap' = heap \cup (Allocated(answer) \X {reads'})
          PROVE  /\ gateway' \in Gateways
                 /\ heap' \subseteq Arrays \X (1 .. MaxReads)
      <4>1. heap \subseteq Arrays \X (1 .. MaxReads)
        BY DEF TypeOK
      <4> QED
        BY <2>0, <3>2, <4>1, GatewayTyped
    <3> QED
      BY <1>3, <3>1, <3>2 DEF ReadGateway
  <2>2. last'.what = "gateway" /\ last'.ret \in {0, -1}
    BY <1>3 DEF ReadGateway, Fails, Succeeds
  <2>3. UNCHANGED <<device, sensor>> /\ idle' = FALSE
        /\ overwritten' = (overwritten \/ ~idle)
    BY <1>3 DEF ReadGateway
  <2>4. overwritten' \in BOOLEAN
    BY <2>3
  <2>5. {idle', twice', overwritten', wild'} \subseteq BOOLEAN
    BY <1>r, <2>0, <2>3, <2>4 DEF Typed
  <2> QED
    BY <1>r, <2>0, <2>1, <2>2, <2>3, <2>5 DEF TypeOK, Fields
<1>4. CASE FreeGateway
  <2>1. /\ UNCHANGED <<device, sensor, gateway, reads, overwritten>>
        /\ heap' \subseteq heap
        /\ frees < MaxFrees /\ frees' = frees + 1
        /\ last'.what = "free" /\ last'.ret = 0
    BY <1>4 DEF FreeGateway
  <2>2. idle' \in BOOLEAN /\ twice' \in BOOLEAN /\ wild' \in BOOLEAN
    BY <1>4 DEF FreeGateway, Typed
  <2>3. frees' \in 0 .. MaxFrees
    BY <2>1, BoundsAssumption DEF TypeOK
  <2> QED
    BY <2>1, <2>2, <2>3 DEF TypeOK, Typed
<1>5. CASE UNCHANGED vars
  BY <1>5 DEF vars, structs, TypeOK
<1> QED
  BY <1>1, <1>2, <1>3, <1>4, <1>5 DEF Next

(* Every struct field, garbage included, is of its type: a time that does  *)
(* not fit is some int (rest.c:78-87), a count is one that was sent.       *)
THEOREM TypeCorrect == Spec => []TypeOK
<1>1. Init => TypeOK
  <2> SUFFICES ASSUME Init PROVE TypeOK
    OBVIOUS
  <2>1. Garbage \in Ints /\ reads \in Numbers /\ frees \in 0 .. MaxFrees
    BY BoundsAssumption DEF Init, Garbage, Ints, Numbers
  <2>2. /\ device \in [name : Numbers \cup {Garbage}, mtime : Ints]
        /\ sensor \in [id : Numbers \cup {Garbage},
                       type : Numbers \cup {Garbage},
                       owner : Numbers \cup {Garbage}, mtime : Ints]
    BY <2>1 DEF Init
  <2>3. gateway \in [name : Numbers \cup {Garbage}, mtime : Ints,
                     model : Numbers \cup {Garbage, Absent},
                     at : [Arrays -> Numbers \cup {Garbage}],
                     nr : [Arrays -> Lengths \cup {Garbage, Zero}]]
    BY <2>1 DEF Init
  <2>4. /\ heap = {} /\ last.what = "none" /\ last.ret = 0
        /\ idle = TRUE /\ twice = FALSE /\ overwritten = FALSE
        /\ wild = FALSE
    BY DEF Init
  <2> QED
    BY <2>1, <2>2, <2>3, <2>4 DEF TypeOK
<1>2. OwnInv => Typed
  BY DEF OwnInv
<1> QED
  BY <1>1, <1>2, TypeStep, OwnInvariant, PTL DEF Spec
============================================================================
