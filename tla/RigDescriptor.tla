---------------------------- MODULE RigDescriptor ----------------------------
(***************************************************************************)
(* The descriptor a device rig presents and the input reports it answers    *)
(* GET_REPORT with: tools/hiditems.py walks the bytes, emu/gen_desc.py      *)
(* rewrites them and measures the reports at build time, and               *)
(* emu/usb_descriptors.c answers from the lengths.                         *)
(*                                                                         *)
(* The corpus holds bytes; what they mean is told by an independent reading *)
(* of the items they were written from.                                    *)
(***************************************************************************)
EXTENDS Integers, SequencesExt, FiniteSetsExt, Functions

CONSTANTS
    Vocabulary,     \* the items a descriptor is made of: records of tag, size and value
    Preamble,       \* the items it starts with
    MaxItems,       \* bound: items after those
    Ids,            \* report IDs a host asks for, 0 for none
    ReqLens         \* wLength of its requests

VARIABLES
    stage,      \* "corpus", "built", "refused", "answered"
    items,      \* history: the items of the corpus entry
    asked,      \* the flags gen_desc.py is given
    desc,       \* the bytes: of the corpus entry, then of the rig
    inputs,     \* the input reports emitted: id, bytes, in order
    request,    \* the host's request: id, len, whether for an input report
    wire        \* what it gets back

descVars == <<stage, items, asked, desc, inputs, request, wire>>

LONG_ITEM == 254
Logical_Minimum == 20
Logical_Maximum == 36
Report_Size == 116
Input == 128
Report_ID == 132
Report_Count == 148
Push == 164
Pop == 180
End_Collection == 192

Item(tag, size, value) == [tag |-> tag, size |-> size, value |-> value]

(***************************************************************************)
(* Bytes and items                                                         *)
(***************************************************************************)
Byte == 0..255
Weight == <<1, 256, 65536, 16777216>>
Room(size) == IF size = 0 THEN 1 ELSE IF size = 4 THEN 256 * Weight[4] ELSE Weight[size + 1]

\* No short tag reads as LONG_ITEM; the data of a long item is bytes, of no one meaning.
ShortItems == { item \in [tag : { 4 * n : n \in 0..62 }, size : {0, 1, 2, 4}, value : Nat] :
                  item.value < Room(item.size) }
LongItems == { item \in [tag : {LONG_ITEM}, size : Byte, value : Seq(Byte)] : item.size = Len(item.value) }

ASSUME DescriptorAssumption ==
    /\ Vocabulary \subseteq ShortItems \cup LongItems
    /\ Preamble \in Seq(ShortItems \cup LongItems)
    /\ Ids \subseteq Byte /\ ReqLens \subseteq Nat \ {0}

Little(value, size) == [k \in 1..size |-> (value \div Weight[k]) % 256]
FromLittle(held) == held[1] + 256 * held[2] + 65536 * held[3] + 16777216 * held[4]

Encode(item) ==
    IF item.tag = LONG_ITEM THEN <<LONG_ITEM, item.size, 0>> \o item.value
    ELSE <<item.tag + (IF item.size = 4 THEN 3 ELSE item.size)>> \o Little(item.value, item.size)

\* walk_items: the item at offset i, with the offset after it
ItemAtShort(data, i) ==
    LET size == IF data[i] % 4 = 3 THEN 4 ELSE data[i] % 4
        held == [k \in 1..4 |-> IF k <= size /\ i + k <= Len(data) THEN data[i + k] ELSE 0]
    IN  [ tag |-> data[i] - (data[i] % 4), size |-> size,
          value |-> FromLittle(held),
          offset |-> i, end |-> i + 1 + size ]

ItemAt(data, i) ==
    IF data[i] = LONG_ITEM
    THEN LET size == IF i < Len(data) THEN data[i + 1] ELSE 0
         IN  [tag |-> LONG_ITEM, size |-> size, value |-> 0, offset |-> i, end |-> i + 3 + size]
    ELSE ItemAtShort(data, i)

WalkStep(data, walk) ==
    IF walk.i > Len(data) THEN walk
    ELSE LET item == ItemAt(data, walk.i)
         IN  [yielded |-> Append(walk.yielded, item), i |-> item.end]

\* The loop goes round once for an item, so never more often than there are bytes.
Walk(data) ==
    LET after[k \in 0..Len(data)] ==
            IF k = 0 THEN [yielded |-> <<>>, i |-> 1] ELSE WalkStep(data, after[k - 1])
    IN  after[Len(data)].yielded

Slice(data, item) == SubSeq(data, item.offset, item.end - 1)

(***************************************************************************)
(* gen_desc.py                                                             *)
(***************************************************************************)
NormaliseEndCollection(data) ==
    FlattenSeq([k \in DOMAIN Walk(data) |->
        LET item == Walk(data)[k]
        IN  IF item.tag = End_Collection /\ item.size > 0 THEN <<End_Collection>> ELSE Slice(data, item)])

Signed(value, size) == IF size > 0 /\ value >= Room(size) \div 2 THEN value - Room(size) ELSE value

\* The shortest Logical Minimum item that holds a value, which is negative
LogicalMinimum(value) ==
    LET size == IF value >= -128 THEN 1 ELSE IF value >= -32768 THEN 2 ELSE 4
    IN  Encode(Item(Logical_Minimum, size, value + Room(size)))

Relative(value) == (value \div 4) % 2 = 1

\* fix_signed_axes, item by item.  A minimum or maximum nobody set is None, which is no
\* zero minimum and, like a zero, no maximum.
AxisStep(data, acc, item) ==
    LET value == Signed(item.value, item.size)
        zero == IF item.tag = Logical_Minimum THEN value = 0 ELSE acc.zero
        lmax == IF item.tag = Logical_Maximum THEN value ELSE acc.lmax
        fixes == item.tag = Input /\ Relative(item.value) /\ zero /\ lmax > 0 /\ ~acc.fixed
    IN  [ out |-> acc.out \o (IF fixes THEN LogicalMinimum(-lmax) ELSE <<>>) \o Slice(data, item),
          fixed |-> acc.fixed \/ fixes, zero |-> zero /\ ~fixes, lmax |-> lmax ]

FixSignedAxes(data) ==
    LET walked == Walk(data)
        after[k \in 0..Len(walked)] ==
            IF k = 0 THEN [out |-> <<>>, fixed |-> FALSE, zero |-> FALSE, lmax |-> 0]
            ELSE AxisStep(data, after[k - 1], walked[k])
    IN  after[Len(walked)].out

\* input_reports: the globals in force, those pushed, and the bits of each report so far
Add(bits, id, n) ==
    IF \E k \in DOMAIN bits : bits[k].id = id
    THEN [k \in DOMAIN bits |-> IF bits[k].id = id THEN [bits[k] EXCEPT !.n = @ + n] ELSE bits[k]]
    ELSE Append(bits, [id |-> id, n |-> n])

ReportStepFlat(acc, item) ==
    CASE item.tag = Report_Size -> [acc EXCEPT !.now.size = item.value]
      [] item.tag = Report_Count -> [acc EXCEPT !.now.count = item.value]
      [] item.tag = Report_ID -> [acc EXCEPT !.now.id = item.value]
      [] item.tag = Input -> [acc EXCEPT !.bits = Add(@, acc.now.id, acc.now.size * acc.now.count)]
      [] OTHER -> acc

ReportStep(acc, item) ==
    CASE item.tag = Report_Size -> [acc EXCEPT !.now.size = item.value]
      [] item.tag = Report_Count -> [acc EXCEPT !.now.count = item.value]
      [] item.tag = Report_ID -> [acc EXCEPT !.now.id = item.value]
      [] item.tag = Push -> [acc EXCEPT !.stack = Append(@, acc.now)]
      [] item.tag = Pop /\ acc.stack # <<>> -> [acc EXCEPT !.now = Last(acc.stack), !.stack = Front(@)]
      [] item.tag = Input -> [acc EXCEPT !.bits = Add(@, acc.now.id, acc.now.size * acc.now.count)]
      [] OTHER -> acc

InputReports(data) ==
    LET walked == Walk(data)
        after[k \in 0..Len(walked)] ==
            IF k = 0 THEN [now |-> [size |-> 0, count |-> 0, id |-> 0], stack |-> <<>>, bits |-> <<>>]
            ELSE ReportStep(after[k - 1], walked[k])
        bits == after[Len(walked)].bits
    IN  [k \in DOMAIN bits |-> [id |-> bits[k].id, bytes |-> (bits[k].n + 7) \div 8]]

(***************************************************************************)
(* From the corpus to the host                                             *)
(***************************************************************************)
\* No request yet, or one for an output or feature report
Other == [id |-> 0, len |-> 0, input |-> FALSE]

DescInit ==
    /\ stage = "corpus" /\ items = Preamble /\ desc = FlattenSeq([k \in DOMAIN Preamble |-> Encode(Preamble[k])])
    /\ asked = {} /\ inputs = <<>> /\ request = Other /\ wire = <<>>

\* A corpus entry, item by item
Write ==
    /\ stage = "corpus" /\ Len(items) < Len(Preamble) + MaxItems
    /\ \E item \in Vocabulary : items' = Append(items, item) /\ desc' = desc \o Encode(item)
    /\ UNCHANGED <<stage, asked, inputs, request, wire>>

Rewritten(flags) ==
    LET normal == IF "normalise" \in flags THEN NormaliseEndCollection(desc) ELSE desc
    IN  IF "fix axes" \in flags THEN FixSignedAxes(normal) ELSE normal

\* main: "declares no input report" is refused.
Generate ==
    /\ stage = "corpus"
    /\ asked' \in SUBSET {"normalise", "fix axes"}
    /\ desc' = Rewritten(asked')
    /\ inputs' = InputReports(desc')
    /\ stage' = IF inputs' = <<>> THEN "refused" ELSE "built"
    /\ UNCHANGED <<items, request, wire>>

\* Lengths are uint16_t, the first ID a uint8_t; an ID past a byte is a case no switch meets.
Width16 == 65536
Narrow(n) == n % Width16
FirstId == inputs[1].id % 256
InputLen(id) == Narrow(IF \E k \in DOMAIN inputs : inputs[k].id = id
                       THEN (CHOOSE r \in ToSet(inputs) : r.id = id).bytes ELSE 0)

Zeros(n) == [k \in 1..n |-> 0]

\* What is put in front, then the report's zeros, as far as len and the request go
ZeroFilled(own, bytes, reqlen) ==
    SubSeq(own \o Zeros(bytes), 1, Min({Narrow(Len(own) + bytes), reqlen}))

\* tud_hid_get_report_cb: what it leaves in the buffer it is handed (nothing stalls)
GetReportIdTwice(report_id, reqlen) ==
    LET id == IF report_id # 0 THEN report_id ELSE FirstId
    IN  ZeroFilled(IF id # 0 THEN <<id>> ELSE <<>>, InputLen(id), reqlen)

GetReport(report_id, reqlen) ==
    LET id == IF report_id # 0 THEN report_id ELSE FirstId
    IN  ZeroFilled(IF report_id = 0 /\ id # 0 THEN <<id>> ELSE <<>>, InputLen(id), reqlen)

\* TinyUSB writes the ID a request names and hands over the buffer after it.
Asked ==
    /\ stage = "built"
    /\ request' \in [id : Ids, len : ReqLens, input : {TRUE}] \cup {Other}
    /\ wire' = IF request' = Other THEN <<>>
               ELSE LET front == IF request'.id # 0 THEN <<request'.id>> ELSE <<>>
                    IN  front \o GetReport(request'.id, request'.len - Len(front))
    /\ stage' = "answered"
    /\ UNCHANGED <<items, asked, desc, inputs>>

DescNext == Write \/ Generate \/ Asked

DescSpec == DescInit /\ [][DescNext]_descVars

(***************************************************************************)
(* What the items declare, read without a stack: a global holds what the    *)
(* last item set it to that no Pop has undone.                             *)
(***************************************************************************)
Depth ==
    LET d[k \in 0..Len(items)] ==
            IF k = 0 THEN 0
            ELSE CASE items[k].tag = Push -> d[k - 1] + 1
                   [] items[k].tag = Pop /\ d[k - 1] > 0 -> d[k - 1] - 1
                   [] OTHER -> d[k - 1]
    IN  d

\* The Push that the Pop at k undoes, 0 where there is none
Undone(k) == IF Depth[k - 1] = 0 THEN 0
             ELSE Max({ m \in 1..k - 1 : items[m].tag = Push /\ Depth[m - 1] = Depth[k] })

Setting(tag) ==
    LET s[k \in 0..Len(items)] ==
            IF k = 0 THEN 0
            ELSE IF items[k].tag = tag THEN items[k].value
            ELSE IF items[k].tag = Pop /\ Undone(k) > 0 THEN s[Undone(k) - 1] ELSE s[k - 1]
    IN  s

InputsOf(id) == { k \in DOMAIN items : items[k].tag = Input /\ Setting(Report_ID)[k] = id }
DeclaredBytes(id) ==
    (SumFunction([k \in InputsOf(id) |-> Setting(Report_Size)[k] * Setting(Report_Count)[k]]) + 7) \div 8
FirstInput == Min({ k \in DOMAIN items : items[k].tag = Input })

\* The last value a tag was given before item k, here as fix_signed_axes has it: Push and
\* Pop are not followed.
Latest(written, tag, k) ==
    LET before == { m \in 1..k : written[m].tag = tag }
    IN  IF before = {} THEN {} ELSE { Signed(written[Max(before)].value, written[Max(before)].size) }

\* The relative inputs whose range is taken for unsigned
Unsigned(written) == { k \in DOMAIN written :
    /\ written[k].tag = Input /\ Relative(written[k].value)
    /\ Latest(written, Logical_Minimum, k) = {0} /\ \E max \in Latest(written, Logical_Maximum, k) : max > 0 }

(***************************************************************************)
(* Properties                                                              *)
(***************************************************************************)
\* The host gets what the device behind the corpus entry would send: for a request that
\* names a report, that report, and for one that names none the first input report, of the
\* length its items declare under whatever was pushed and popped around them, its ID in front
\* once, where it has one, and no more of it than was asked for: for every ID that is a byte
\* and every report a 16-bit wLength can tell the length of.
ReplyAsDeclared ==
    stage = "answered" /\ request.input =>
        LET id == IF request.id # 0 THEN request.id ELSE Setting(Report_ID)[FirstInput]
            report == (IF id # 0 THEN <<id>> ELSE <<>>) \o Zeros(DeclaredBytes(id))
        IN  InputsOf(id) # {} /\ id \in Byte /\ Len(report) < Width16 =>
                wire = SubSeq(report, 1, Min({Len(report), request.len}))

\* A rig presents its corpus entry and only what was asked for is changed: every End
\* Collection with a data byte loses it, the first relative input read as unsigned gets a
\* Logical Minimum of minus its maximum in front, and every other item, long ones with
\* anything inside included, is still there, whole and in its place.
OnlyWhatWasAsked ==
    stage \in {"built", "refused", "answered"} =>
        LET normal == [k \in DOMAIN items |->
                IF "normalise" \in asked /\ items[k].tag = End_Collection THEN Item(End_Collection, 0, 0) ELSE items[k]]
            axis == Min(Unsigned(items))
            signs == "fix axes" \in asked /\ Unsigned(items) # {}
        IN  desc = FlattenSeq([k \in DOMAIN normal |->
                (IF signs /\ k = axis THEN LogicalMinimum(-(CHOOSE max \in Latest(items, Logical_Maximum, k) : TRUE)) ELSE <<>>)
                    \o Encode(normal[k])])
==============================================================================
