------------------------------ MODULE RestInfo ------------------------------
(***************************************************************************)
(* Reading what the server knows (library/src/rest/rest.c:                 *)
(* rest_gatewayinfo, rest_deviceinfo, rest_sensorinfo and                  *)
(* rest_gatewayinfo_free, with thingplus_gatewayinfo of thingplus.c) into  *)
(* structs that the application keeps and uses again.                      *)
(*                                                                         *)
(* Answers are numbered.  A field holds the number of the answer it was    *)
(* copied from; fields that are parsed alike share one: "name" stands for  *)
(* the strings of a device or a gateway, "id" for the strings of a sensor  *)
(* that lie inside the part that is cleared, "owner" for those behind it.  *)
(***************************************************************************)
EXTENDS Integers, FiniteSets

CONSTANTS
    Times,          \* bound: times the server sends
    Lengths,        \* bound: lengths of the arrays it sends
    IntMax,         \* INT_MAX: 2^31 - 1 where the code runs
    MaxReads,       \* bound: reads
    MaxFrees        \* bound: calls of rest_gatewayinfo_free

ASSUME TimesAssumption == Times \subseteq Nat /\ Lengths \subseteq Nat

ASSUME BoundsAssumption ==
    IntMax \in Nat \ {0} /\ MaxReads \in Nat /\ MaxFrees \in Nat

Garbage == -2   \* never written: the structs are on the stack
Zero == 0       \* cleared: "", 0 or false
Absent == -1    \* what an integer becomes without its key

(* The structs of thingplus_types.h: a name has 512 bytes, a time_t 8; a   *)
(* sensor is five names, which "id" stands for, four more, and two times.  *)
NameLength == 512
DeviceSize == 4 * NameLength + 2 * 8
SensorOffset == [id |-> 0, type |-> 4 * NameLength, owner |-> 5 * NameLength]

Arrays == {"devices", "sensors"}

VARIABLES
    device, sensor, gateway,    \* the application's structs
    heap,       \* the arrays that are allocated: <<which, answer>>
    last,       \* the last call: what, what it returned, and its answer
    reads, frees,   \* histories, for the bounds
    kept,       \* history: sensor before the last call
    idle,       \* history: gateway was not read since it was freed
    twice,      \* history: gateway was freed again without being read
    overwritten,\* history: gateway was read without being freed before
    wild        \* an array was freed twice: anything may follow

structs == <<device, sensor, gateway, heap>>
vars == <<structs, last, reads, frees, kept, idle, twice, overwritten, wild>>

Numbers == 0 .. MaxReads

Ints == -(IntMax + 1) .. IntMax

TypeOK ==
    /\ device \in [name : Numbers \cup {Garbage}, mtime : Ints]
    /\ sensor \in [id : Numbers \cup {Garbage}, type : Numbers \cup {Garbage},
                   owner : Numbers \cup {Garbage}, mtime : Ints]
    /\ gateway \in [name : Numbers \cup {Garbage}, mtime : Ints,
                    model : Numbers \cup {Garbage, Absent},
                    at : [Arrays -> Numbers \cup {Garbage}],
                    nr : [Arrays -> Lengths \cup {Garbage, Zero}]]
    /\ heap \subseteq Arrays \X (1 .. MaxReads)
    /\ last.what \in {"none", "device", "sensor", "gateway", "free"}
    /\ last.ret \in {0, -1}
    /\ reads \in Numbers /\ frees \in 0 .. MaxFrees
    /\ {idle, twice, overwritten, wild} \subseteq BOOLEAN

NoAnswer == [keys |-> {}, time |-> 0, nr |-> [a \in Arrays |-> 0]]

Init ==
    /\ device = [name |-> Garbage, mtime |-> Garbage]
    /\ sensor = [id |-> Garbage, type |-> Garbage, owner |-> Garbage,
                 mtime |-> Garbage]
    /\ gateway = [name |-> Garbage, mtime |-> Garbage, model |-> Garbage,
                  at |-> [a \in Arrays |-> Garbage],
                  nr |-> [a \in Arrays |-> Garbage]]
    /\ heap = {} /\ last = [what |-> "none", ret |-> 0, answer |-> NoAnswer]
    /\ reads = 0 /\ frees = 0 /\ kept = sensor
    /\ idle = TRUE /\ twice = FALSE /\ overwritten = FALSE /\ wild = FALSE

-----------------------------------------------------------------------------
(* Parsing. *)

(* Mutant: the number is taken without a sign. *)
ToIntUnsigned(x) == x % (2 * (IntMax + 1))

(* What an int holds of a number *)
ToInt(x) == ((x + IntMax + 1) % (2 * (IntMax + 1))) - (IntMax + 1)

(* _json_int64_parse returns an int. *)
Int64Parse(answer) ==
    IF "mtime" \in answer.keys THEN ToInt(answer.time) ELSE Absent

(* _json_int_parse *)
IntParse(answer, key) == IF key \in answer.keys THEN reads' ELSE Absent

(* _json_string_parse: without the key dest is left alone. *)
StringParse(answer, key, dest) == IF key \in answer.keys THEN reads' ELSE dest

DeviceInfo(answer) ==
    [name |-> StringParse(answer, "name", Zero),
     mtime |-> Int64Parse(answer)]

(* Mutant: the whole size is not cleared, but that of one name. *)
ClearedName(field) == IF SensorOffset[field] < NameLength THEN Zero
                      ELSE sensor[field]

(* memset of sizeof(struct thingplus_device) *)
Cleared(field) == IF SensorOffset[field] < DeviceSize THEN Zero
                  ELSE sensor[field]

SensorInfo(answer) ==
    [id |-> StringParse(answer, "id", Cleared("id")),
     type |-> StringParse(answer, "type", Cleared("type")),
     owner |-> StringParse(answer, "owner", Cleared("owner")),
     mtime |-> Int64Parse(answer)]

EmptyGateway ==
    [name |-> Zero, mtime |-> Zero, model |-> Zero,
     at |-> [a \in Arrays |-> Zero], nr |-> [a \in Arrays |-> Zero]]

(* An array is allocated when its key is there; no devices need none, no   *)
(* sensors are a block of no bytes.                                        *)
Allocated(answer) ==
    {a \in Arrays \cap answer.keys : a = "sensors" \/ answer.nr[a] > 0}

GatewayInfo(answer) ==
    [name |-> StringParse(answer, "name", Zero),
     mtime |-> Int64Parse(answer),
     model |-> IntParse(answer, "model"),
     at |-> [a \in Arrays |-> IF a \in Allocated(answer) THEN reads' ELSE 0],
     nr |-> [a \in Arrays |-> IF a \in answer.keys THEN answer.nr[a] ELSE 0]]

-----------------------------------------------------------------------------
(* The calls. *)

Answers(keys) ==
    [keys : SUBSET keys, time : Times, nr : [Arrays \cap keys -> Lengths]]

(* One exchange. *)
Reading ==
    /\ ~wild /\ reads < MaxReads
    /\ reads' = reads + 1
    /\ kept' = sensor
    /\ UNCHANGED <<frees, twice, wild>>

(* tcurl_read fails, or succeeds with an answer: any object but a refusal, *)
(* or nothing at all, which has no key either.                             *)
Fails(what) == last' = [what |-> what, ret |-> -1, answer |-> NoAnswer]

Succeeds(what, answer) == last' = [what |-> what, ret |-> 0, answer |-> answer]

ReadDevice ==
    /\ Reading
    /\ \/ Fails("device") /\ UNCHANGED device
       \/ \E answer \in Answers({"name", "mtime"}) :
             Succeeds("device", answer) /\ device' = DeviceInfo(answer)
    /\ UNCHANGED <<sensor, gateway, heap, idle, overwritten>>

ReadSensor ==
    /\ Reading
    /\ \/ Fails("sensor") /\ UNCHANGED sensor
       \/ \E answer \in Answers({"id", "type", "owner", "mtime"}) :
             Succeeds("sensor", answer) /\ sensor' = SensorInfo(answer)
    /\ UNCHANGED <<device, gateway, heap, idle, overwritten>>

(* Mutant: the struct is cleared when there is an answer to parse. *)
GatewayFailsUncleared == UNCHANGED <<gateway, heap>>

(* rest_gatewayinfo clears the struct before the exchange. *)
GatewayFails == gateway' = EmptyGateway /\ UNCHANGED heap

ReadGateway ==
    /\ Reading
    /\ \/ Fails("gateway") /\ GatewayFails
       \/ \E answer \in Answers({"name", "mtime", "model"} \cup Arrays) :
             /\ Succeeds("gateway", answer)
             /\ gateway' = GatewayInfo(answer)
             /\ heap' = heap \cup (Allocated(answer) \X {reads'})
    /\ overwritten' = (overwritten \/ ~idle)
    /\ idle' = FALSE
    /\ UNCHANGED <<device, sensor>>

(* Mutant: an array is freed when it has entries. *)
HeldNonempty ==
    {<<a, gateway.at[a]>> :
        a \in {b \in Arrays : gateway.at[b] # 0 /\ gateway.nr[b] > 0}}

(* The arrays gateway points to *)
Held == {<<a, gateway.at[a]>> : a \in {b \in Arrays : gateway.at[b] # 0}}

(* rest_gatewayinfo_free: the pointers stay.  It is called for a struct    *)
(* that was read, successfully or not.                                     *)
FreeGateway ==
    /\ ~wild /\ frees < MaxFrees /\ gateway.name # Garbage
    /\ frees' = frees + 1
    /\ IF Held \subseteq heap
       THEN heap' = heap \ Held /\ UNCHANGED wild
       ELSE wild' = TRUE /\ UNCHANGED heap
    /\ last' = [what |-> "free", ret |-> 0, answer |-> NoAnswer]
    /\ twice' = (twice \/ idle)
    /\ idle' = TRUE
    /\ kept' = sensor
    /\ UNCHANGED <<device, sensor, gateway, reads, overwritten>>

Next == ReadDevice \/ ReadSensor \/ ReadGateway \/ FreeGateway

Spec == Init /\ [][Next]_vars

-----------------------------------------------------------------------------
(* Properties. *)

FitsInt(x) == x <= IntMax

(* The time is the one that was sent, as far as it fits an int. *)
TimeOf(answer, mtime) ==
    IF "mtime" \in answer.keys THEN FitsInt(answer.time) => mtime = answer.time
    ELSE mtime = Absent

(* After a successful read every field of a device or a gateway, and every *)
(* field of a sensor up to its type, is from this answer or empty, never   *)
(* from an earlier one, and what lies behind it is from this answer or as  *)
(* it was (rest.c:480-526).                                                *)
InfoIsOfThisAnswer ==
    LET answer == last.answer
        Of(key, field) == field = IF key \in answer.keys THEN reads ELSE Zero
    IN  /\ last.what = "device" /\ last.ret = 0 =>
              /\ Of("name", device.name) /\ TimeOf(answer, device.mtime)
        /\ last.what = "sensor" /\ last.ret = 0 =>
              /\ Of("id", sensor.id) /\ Of("type", sensor.type)
              /\ sensor.owner = IF "owner" \in answer.keys THEN reads
                                ELSE kept.owner
              /\ TimeOf(answer, sensor.mtime)
        /\ last.what = "gateway" /\ last.ret = 0 =>
              /\ Of("name", gateway.name) /\ TimeOf(answer, gateway.mtime)

(* While gateway has not been freed its counts say how many entries its    *)
(* arrays have, after a failed read too (rest.c:115-151, 619).             *)
CountsAreOfArrays ==
    ~idle => \A a \in Arrays :
        IF gateway.at[a] = 0 THEN gateway.nr[a] = 0
        ELSE <<a, gateway.at[a]>> \in heap

(* An array is freed twice only by freeing the same struct twice without a *)
(* read in between; a read that fails is one (rest.c:153-173, 614-640).    *)
FreedOnce == wild => twice

(* No array is lost unless the struct was read again before it was freed.  *)
NothingLeaks == overwritten \/ heap \subseteq Held
=============================================================================
