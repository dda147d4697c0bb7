---------------------------- MODULE ValuePayload ----------------------------
(***************************************************************************)
(* The payload of one mqtt_value_publish (library/src/mqtt: mqtt.c,        *)
(* values.c, packetize.c): values of one sensor go to the sensor's topic   *)
(* as a list, others are grouped by sensor and go to the gateway's topic   *)
(* as a JSON object.  One step is one iteration of a loop and ends in one  *)
(* packetize_payload, which appends a piece to a buffer that grows by a    *)
(* fixed amount.                                                           *)
(*                                                                         *)
(* An id is a C string: a text at an address.  _values_contain_single_     *)
(* sensor compares addresses, _sensor_get texts.  The time and the text of *)
(* the i-th value are the token ToString(i).                               *)
(***************************************************************************)
EXTENDS Integers, Sequences, FiniteSets, FiniteSetsExt, TLC

CONSTANTS
    Texts,      \* texts of ids
    Places,     \* where a text can be kept
    NoId,       \* NULL
    Chunk,      \* DEFAULT_MESSAGE_LEN, 512
    Batch,      \* values a group's array grows by, 10
    MaxValues   \* bound: values of one call

Ids == Texts \X Places

ASSUME IdsAssumption == NoId \notin Ids

ASSUME SizesAssumption ==
    Chunk \in Nat \ {0, 1} /\ Batch \in Nat \ {0} /\ MaxValues \in Nat \ {0}

VARIABLES
    values,     \* the ids of the values passed
    pc,         \* the loop that runs
    i,          \* its index
    j,          \* the index of the loop inside it
    groups,     \* the list of values.c, one group for each text
    topic,      \* NoId for the gateway's topic, else the sensor's id
    payload,    \* the pieces written
    used,       \* strlen(payload)
    size        \* payload_size; 0 while payload is NULL

buffer == <<payload, used, size>>
vars == <<values, pc, i, j, groups, topic, buffer>>

TypeOK ==
    /\ values \in Seq(Ids \cup {NoId}) /\ Len(values) \in 1 .. MaxValues
    /\ pc \in {"classify", "group", "open", "list", "publish", "done",
               "undefined"}
    /\ i \in 1 .. MaxValues + 1 /\ j \in 1 .. MaxValues + 1
    /\ \A k \in DOMAIN groups : groups[k].id \in Texts
    /\ topic \in Ids \cup {NoId}
    /\ used \in Nat /\ size \in Nat

Init ==
    /\ values \in UNION {[1 .. n -> Ids \cup {NoId}] : n \in 1 .. MaxValues}
    /\ pc = "classify" /\ i = 1 /\ j = 1 /\ groups = <<>> /\ topic = NoId
    /\ payload = <<>> /\ used = 0 /\ size = 0

-----------------------------------------------------------------------------
(* Mutant: no room is kept for the terminating zero. *)
PacketizeTight(tokens) ==
    \E length \in 1 .. Chunk - 1 :
        /\ size' = IF length > size - used THEN size + Chunk ELSE size
        /\ used' = used + length
        /\ payload' = payload \o tokens

(* packetize_payload, for a piece that fits its 512-byte scratch buffer *)
Packetize(tokens) ==
    \E length \in 1 .. Chunk - 1 :
        /\ size' = IF length + 1 > size - used THEN size + Chunk ELSE size
        /\ used' = used + length
        /\ payload' = payload \o tokens

(* _values_contain_single_sensor *)
SingleSensor ==
    \A k \in DOMAIN values \ {1} : values[k] \in {NoId, values[1]}

Classify ==
    /\ pc = "classify"
    /\ topic' = IF SingleSensor THEN values[1] ELSE NoId
    /\ pc' = IF SingleSensor THEN "list" ELSE "group"
    /\ UNCHANGED <<values, i, j, groups, buffer>>

-----------------------------------------------------------------------------
(* values_init *)

(* Mutant: every other value makes a group of its own. *)
GroupOfLast(text) ==
    IF groups # <<>> /\ groups[Len(groups)].id = text
    THEN Len(groups) ELSE Len(groups) + 1

(* The group of a text, or the place of the next one. *)
GroupOf(text) ==
    Min({k \in DOMAIN groups : groups[k].id = text} \cup {Len(groups) + 1})

(* Mutant: an array grows only when its group is made. *)
PushedUngrown(text, value) ==
    LET k == GroupOf(text)
    IN  IF k \in DOMAIN groups
        THEN [groups EXCEPT ![k].items = Append(@, value)]
        ELSE Append(groups, [id |-> text, items |-> <<value>>,
                             allocated |-> Batch])

(* _sensor_get and _sensor_value_push *)
Pushed(text, value) ==
    LET k == GroupOf(text)
        g == IF k \in DOMAIN groups THEN groups[k]
             ELSE [id |-> text, items |-> <<>>, allocated |-> 0]
        h == [g EXCEPT !.items = Append(@, value),
                       !.allocated =
                           IF @ = Len(g.items) THEN @ + Batch ELSE @]
    IN  IF k \in DOMAIN groups THEN [groups EXCEPT ![k] = h]
                               ELSE Append(groups, h)

GroupValue ==
    /\ pc = "group" /\ i \in DOMAIN values
    /\ groups' = IF values[i] = NoId THEN groups
                 ELSE Pushed(values[i][1], ToString(i))
    /\ i' = i + 1
    /\ UNCHANGED <<values, pc, j, topic, buffer>>

Grouped ==
    /\ pc = "group" /\ i \notin DOMAIN values
    /\ pc' = "open" /\ i' = 1
    /\ UNCHANGED <<values, j, groups, topic, buffer>>

-----------------------------------------------------------------------------
(* _sensors_value_packetize; its inner loop is _sensor_value_packetize. *)

OpenGroup ==
    /\ pc = "open" /\ i \in DOMAIN groups
    /\ Packetize(<<IF i = 1 THEN "{" ELSE ",", groups[i].id, ":[">>)
    /\ pc' = "list" /\ j' = 1
    /\ UNCHANGED <<values, i, groups, topic>>

Close ==
    /\ pc = "open" /\ i \notin DOMAIN groups
    /\ Packetize(<<"}">>)
    /\ pc' = "publish"
    /\ UNCHANGED <<values, i, j, groups, topic>>

(* The values that the running _sensor_value_packetize is given: all of    *)
(* them, or the group's, which all have an id.                             *)
Listed == IF groups = <<>> THEN [k \in DOMAIN values |-> ToString(k)]
          ELSE groups[i].items

Skipped(k) == groups = <<>> /\ values[k] = NoId

(* The format has no comma until one value was written. *)
First == \A k \in 1 .. j - 1 : Skipped(k)

Value ==
    /\ pc = "list" /\ j \in DOMAIN Listed
    /\ IF Skipped(j) THEN UNCHANGED buffer
       ELSE Packetize(IF First THEN <<Listed[j]>> ELSE <<",", Listed[j]>>)
    /\ j' = j + 1
    /\ UNCHANGED <<values, pc, i, groups, topic>>

CloseGroup ==
    /\ pc = "list" /\ j \notin DOMAIN Listed /\ groups # <<>>
    /\ Packetize(<<"]">>)
    /\ pc' = "open" /\ i' = i + 1
    /\ UNCHANGED <<values, j, groups, topic>>

Listing ==
    /\ pc = "list" /\ j \notin DOMAIN Listed /\ groups = <<>>
    /\ pc' = "publish"
    /\ UNCHANGED <<values, i, j, groups, topic, buffer>>

(* mosquitto_publish of strlen(payload) bytes: undefined for NULL. *)
Publish ==
    /\ pc = "publish"
    /\ pc' = IF size = 0 THEN "undefined" ELSE "done"
    /\ UNCHANGED <<values, i, j, groups, topic, buffer>>

Next ==
    \/ Classify \/ GroupValue \/ Grouped \/ OpenGroup \/ Close
    \/ Value \/ CloseGroup \/ Listing \/ Publish

Spec == Init /\ [][Next]_vars

-----------------------------------------------------------------------------
(* Properties. *)

(* The text in the buffer and its terminating zero are inside it, whatever *)
(* the pieces' lengths (packetize.c:22-33).                                *)
BufferHolds == used < size \/ (used = 0 /\ size = 0)

(* No group has more values than its array has room for, whatever the      *)
(* order in which the sensors' values are passed (values.c:34-42).         *)
ArraysHold ==
    \A k \in DOMAIN groups : Len(groups[k].items) <= groups[k].allocated

(* Reference: where every piece has to be.  A value's place among those of *)
(* its text is the number of them up to it; a text comes after the values  *)
(* of the texts seen before it, with three marks for each of those.        *)
Named == {n \in DOMAIN values : values[n] # NoId}

Text(n) == values[n][1]

Of(text) == {n \in Named : Text(n) = text}

Rank(n, numbers) == Cardinality({m \in numbers : m <= n})

(* The values of these numbers are listed from a place on. *)
ListedAt(place, numbers) ==
    \A n \in numbers :
        LET p == place + 2 * (Rank(n, numbers) - 1)
        IN  /\ payload[p] = ToString(n)
            /\ Rank(n, numbers) > 1 => payload[p - 1] = ","

(* The values whose text was seen before a text *)
Before(text) ==
    {n \in Named : \E m \in Of(Text(n)) : \A k \in Of(text) : m < k}

TextsOf(numbers) == {Text(n) : n \in numbers}

Offset(text) ==
    3 * Cardinality(TextsOf(Before(text))) + 2 * Cardinality(Before(text))

ObjectOf(text) ==
    /\ payload[Offset(text) + 1] = IF Before(text) = {} THEN "{" ELSE ","
    /\ payload[Offset(text) + 2] = text
    /\ payload[Offset(text) + 3] = ":["
    /\ ListedAt(Offset(text) + 4, Of(text))
    /\ payload[Offset(text) + 3 + 2 * Cardinality(Of(text))] = "]"

(* Every value that has an id is published once, under the text of its id, *)
(* in the order given: all on the sensor's topic if they are that sensor's *)
(* only, grouped on the gateway's otherwise; only a call without any id    *)
(* publishes nothing (mqtt.c:103-162 and 290-297, values.c:12-75).         *)
PublishedUnderItsId ==
    /\ pc = "done" /\ topic = NoId =>
          /\ Len(payload) =
                3 * Cardinality(TextsOf(Named)) + 2 * Cardinality(Named) + 1
          /\ \A text \in TextsOf(Named) : ObjectOf(text)
          /\ payload[Len(payload)] = "}"
    /\ pc = "done" /\ topic # NoId =>
          /\ Len(payload) = 2 * Cardinality(Named) - 1
          /\ ListedAt(1, Named)
          /\ \A n \in Named : values[n] = topic
    /\ pc = "undefined" => Named = {}
=============================================================================
