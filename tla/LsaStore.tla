------------------------------ MODULE LsaStore ------------------------------
(***************************************************************************)
(* The Label Storage Area of one DIMM and the Namespace Label Manager that *)
(* writes it (spec.md 4.2, 4.3; the prototypes InsertNamespaceLabels,     *)
(* ModifyNamespaceLabels, RemoveNamespaceLabels, UpdateLsaIndex and        *)
(* InitializeLabelStorageArea in Namespace.h).  The media holds two index  *)
(* blocks and one array of label slots shared by both.  The active block  *)
(* is the valid one with the modular-greater sequence number.  A write     *)
(* operation stages its label writes, writes them to the slots, then       *)
(* writes the standby index block with the next sequence number and the  *)
(* new free bitmap, which makes it the active one.  Power may be lost     *)
(* between any two of these writes and an index block write may tear.     *)
(***************************************************************************)
EXTENDS Naturals, Sequences, FiniteSets, SequencesExt

CONSTANTS
    Uuids, Names, Dpas,
    NSlots,      \* label slots in the LSA
    SeqModulus,      \* sequence numbers are kept modulo SeqModulus
    MaxInsert,   \* most labels one InsertNamespaceLabels call is given
    MultiRange,  \* may a device hold several labels of one namespace
    NoLabel,     \* content of a slot no label was ever written to
    NoName,      \* ModifyNamespaceLabels called without pName
    NoRequest    \* no operation under way

Slots == 1..NSlots
Blocks == {0, 1}
NoBlock == 2
Label == [uuid : Uuids, name : Names, dpa : Dpas]
IndexBlock == [valid : BOOLEAN, seq : 0..(SeqModulus - 1), free : SUBSET Slots]
Status == {"Success", "NotFound", "OutOfResources", "DeviceError"}

VARIABLES
    index,     \* the two index blocks on the media
    slot,      \* the label slots on the media
    pc,        \* where the writer is: "idle", "labels" or "index"
    pending,   \* staged label writes not yet on the media: slot -> label
    newFree,   \* free bitmap the commit will write
    ret,       \* status of the last operation
    request    \* history: the operation under way as its caller asked for
               \* it (NoRequest when idle); not state of the code

vars == <<index, slot, pc, pending, newFree, ret, request>>

TypeOK ==
    /\ index \in [Blocks -> IndexBlock]
    /\ slot \in [Slots -> Label \cup {NoLabel}]
    /\ pc \in {"idle", "labels", "index"}
    /\ DOMAIN pending \subseteq Slots
    /\ \A s \in DOMAIN pending : pending[s] \in Label
    /\ newFree \subseteq Slots
    /\ ret \in Status
    /\ request = NoRequest \/ request.op \in {"insert", "modify", "remove"}

(* Modular comparison of sequence numbers: a is newer than b when it lies *)
(* less than half the range above b.                                      *)
SeqNewer(a, b) == a # b /\ (a - b + SeqModulus) % SeqModulus < SeqModulus \div 2

(* The read path: the only valid block, or the newer of two valid ones.   *)
Active ==
    IF index[0].valid /\ index[1].valid
        THEN IF SeqNewer(index[1].seq, index[0].seq) THEN 1 ELSE 0
    ELSE IF index[0].valid THEN 0
    ELSE IF index[1].valid THEN 1
    ELSE NoBlock

(* The block a commit writes: never the active one.                       *)
Standby == IF Active = 1 THEN 0 ELSE 1

Occupied == IF Active = NoBlock THEN {} ELSE Slots \ index[Active].free

UuidsPresent == {slot[s].uuid : s \in Occupied}

Init ==
    /\ index = [b \in Blocks |-> [valid |-> FALSE, seq |-> 0, free |-> {}]]
    /\ slot = [s \in Slots |-> NoLabel]
    /\ pc = "idle"
    /\ pending = <<>>
    /\ newFree = {}
    /\ ret = "Success"
    /\ request = NoRequest

(* InitializeLabelStorageArea: two fresh index blocks with sequence       *)
(* numbers 1 and 0, every slot free.                                      *)
InitializeLabelStorageArea ==
    /\ pc = "idle"
    /\ Active = NoBlock
    /\ index' = [b \in Blocks |->
                   [valid |-> TRUE, seq |-> 1 - b, free |-> Slots]]
    /\ ret' = "Success"
    /\ UNCHANGED <<slot, pc, pending, newFree, request>>

(* Mutant: slots are taken from the front of the LSA, ignoring the bitmap. *)
LowestSlots(k) == SubSeq(SetToSortSeq(Slots, <), 1, k)

(* The k lowest free slots, in increasing order.                          *)
LowestFree(k) == SubSeq(SetToSortSeq(index[Active].free, <), 1, k)

(* The labels of a call, as a multiset.                                  *)
BagOf(labels) == [l \in Label |-> Cardinality({i \in DOMAIN labels : labels[i] = l})]

(* InsertNamespaceLabels: labels go to the lowest free slots in order.    *)
InsertNamespaceLabels(labels) ==
    /\ pc = "idle"
    /\ Active # NoBlock
    /\ IF Len(labels) > Cardinality(index[Active].free)
         THEN /\ ret' = "OutOfResources"
              /\ UNCHANGED <<pc, pending, newFree, request>>
         ELSE LET to == LowestFree(Len(labels)) IN
              /\ pending' = [s \in ToSet(to) |->
                               labels[CHOOSE i \in DOMAIN to : to[i] = s]]
              /\ newFree' = index[Active].free \ ToSet(to)
              /\ pc' = "labels"
              /\ request' = [op |-> "insert", bag |-> BagOf(labels)]
              /\ UNCHANGED ret
    /\ UNCHANGED <<index, slot>>

(* ModifyNamespaceLabels: re-encode every label of the namespace.         *)
ModifyNamespaceLabels(u, n) ==
    LET match == {s \in Occupied : slot[s].uuid = u} IN
    /\ pc = "idle"
    /\ Active # NoBlock
    /\ IF match = {}
         THEN /\ ret' = "NotFound"
              /\ UNCHANGED <<pc, pending, newFree, request>>
         ELSE /\ pending' = [s \in match |->
                               [slot[s] EXCEPT !.name = IF n = NoName THEN @ ELSE n]]
              /\ newFree' = index[Active].free
              /\ pc' = "labels"
              /\ request' = [op |-> "modify", uuid |-> u, name |-> n]
              /\ UNCHANGED ret
    /\ UNCHANGED <<index, slot>>

(* RemoveNamespaceLabels: free the namespace's slots, or the one slot at  *)
(* a given DPA; the label bytes stay where they are.                      *)
RemoveNamespaceLabels(u, ds) ==
    /\ pc = "idle"
    /\ Active # NoBlock
    /\ newFree' = index[Active].free
                    \cup {s \in Occupied : slot[s].uuid = u /\ slot[s].dpa \in ds}
    /\ pending' = <<>>
    /\ pc' = "index"
    /\ request' = [op |-> "remove", uuid |-> u, dpas |-> ds]
    /\ UNCHANGED <<index, slot, ret>>

(* Mutant: the label write loop ends after the first label.               *)
WriteLabelStopsEarly ==
    /\ pc = "labels"
    /\ \E s \in DOMAIN pending :
         /\ slot' = [slot EXCEPT ![s] = pending[s]]
         /\ pending' = <<>>
         /\ pc' = "index"
    /\ UNCHANGED <<index, newFree, ret, request>>

(* One staged label reaches its slot.                                     *)
WriteLabel ==
    /\ pc = "labels"
    /\ \E s \in DOMAIN pending :
         /\ slot' = [slot EXCEPT ![s] = pending[s]]
         /\ pending' = [t \in DOMAIN pending \ {s} |-> pending[t]]
         /\ pc' = IF DOMAIN pending = {s} THEN "index" ELSE "labels"
    /\ UNCHANGED <<index, newFree, ret, request>>

(* Mutant: the sequence number is incremented without wrapping.          *)
NextSeqNoWrap(s) == s + 1

(* The sequence number after s, modulo the width of the field.            *)
NextSeq(s) == (s + 1) % SeqModulus

(* UpdateLsaIndex and the write of the next index block: the standby      *)
(* block gets the next sequence number and the new bitmap.                *)
UpdateLsaIndex ==
    /\ pc = "index"
    /\ index' = [index EXCEPT ![Standby] =
                   [valid |-> TRUE,
                    seq   |-> NextSeq(index[Active].seq),
                    free  |-> newFree]]
    /\ pc' = "idle"
    /\ ret' = "Success"
    /\ request' = NoRequest
    /\ UNCHANGED <<slot, pending, newFree>>

(* The index block write tears: its checksum no longer validates, and the *)
(* read-back fails the operation.                                         *)
TornIndexWrite ==
    /\ pc = "index"
    /\ index' = [index EXCEPT ![Standby].valid = FALSE]
    /\ pc' = "idle"
    /\ ret' = "DeviceError"
    /\ request' = NoRequest
    /\ UNCHANGED <<slot, pending, newFree>>

(* Power loss in the middle of an operation: only the media survives.     *)
PowerLoss ==
    /\ pc # "idle"
    /\ pc' = "idle"
    /\ pending' = <<>>
    /\ newFree' = {}
    /\ ret' = "DeviceError"
    /\ request' = NoRequest
    /\ UNCHANGED <<index, slot>>

(* What a caller may pass: sequences of up to MaxInsert labels; for a new *)
(* namespace, labels of distinct UUIDs the device does not hold yet.      *)
InsertInputs ==
    {labels \in UNION {[1..k -> Label] : k \in 1..MaxInsert} :
        MultiRange \/ (/\ \A i \in DOMAIN labels : labels[i].uuid \notin UuidsPresent
                       /\ IsInjective([i \in DOMAIN labels |-> labels[i].uuid]))}

Next ==
    \/ InitializeLabelStorageArea
    \/ \E labels \in InsertInputs : InsertNamespaceLabels(labels)
    \/ \E u \in Uuids, n \in Names \cup {NoName} : ModifyNamespaceLabels(u, n)
    \/ \E u \in Uuids : \E ds \in {Dpas} \cup {{d} : d \in Dpas} :
         RemoveNamespaceLabels(u, ds)
    \/ WriteLabel
    \/ UpdateLsaIndex
    \/ TornIndexWrite
    \/ PowerLoss

Spec == Init /\ [][Next]_vars

-----------------------------------------------------------------------------
(* The label multiset a reader finds on the media, through the active     *)
(* index block.                                                           *)
held == [l \in Label |-> Cardinality({s \in Occupied : slot[s] = l})]

(* A Modify has taken effect once its labels are rewritten in place; an  *)
(* Insert or a Remove only when the index block that frees or claims      *)
(* their slots is written, which also returns.                            *)
modified == request # NoRequest /\ request.op = "modify" /\ pc = "index"

Abstract == INSTANCE LabelMap WITH held <- held, req <- request,
                                   applied <- modified, None <- NoRequest

(* Whatever the writer does and wherever power is lost, the media always  *)
(* shows a label multiset reached by whole Insert, Modify and Remove      *)
(* operations, each the one its caller asked for, all of its labels or   *)
(* none, between the call and its return: the dual-index commit of the   *)
(* LSA is atomic.                                                          *)
AtomicLabelStore == Abstract!Spec

(* Every slot the active bitmap marks in use holds a written label: the   *)
(* labels reach the media before the index that refers to them.           *)
InUseSlotsHoldLabels == \A s \in Occupied : slot[s] \in Label
=============================================================================
