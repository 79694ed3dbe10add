------------------------------ MODULE LabelMap ------------------------------
(***************************************************************************)
(* What the Label Storage Area of one DIMM promises its callers (spec.md   *)
(* 4.3): a multiset of namespace labels that Insert, Modify and Remove     *)
(* change atomically, as if there were no index blocks, no label slots and *)
(* no power loss.  A call is under way from the moment the caller hands    *)
(* over its request until it returns; its effect takes place in one step   *)
(* somewhere in between, whole, or not at all when the call fails.  An     *)
(* Insert with more labels than free slots has no effect.  LsaStore        *)
(* refines this specification.                                             *)
(***************************************************************************)
EXTENDS Naturals, FiniteSetsExt

CONSTANTS
    Uuids,      \* namespace UUIDs
    Names,      \* namespace names
    Dpas,       \* DPA range starts on this DIMM
    NSlots,     \* number of label slots of the LSA
    NoName,     \* Modify without a new name
    None        \* no call under way

Label == [uuid : Uuids, name : Names, dpa : Dpas]

VARIABLES
    held,      \* held[l]: how many copies of label l the LSA holds
    req,       \* the call under way, or None
    applied    \* whether the call under way has taken effect

Size(h) == MapThenSumSet(LAMBDA l : h[l], Label)

Requests ==
    [op : {"insert"}, bag : [Label -> 0..NSlots]]
    \cup [op : {"modify"}, uuid : Uuids, name : Names \cup {NoName}]
    \cup [op : {"remove"}, uuid : Uuids, dpas : SUBSET Dpas]

TypeOK ==
    /\ held \in [Label -> 0..NSlots] /\ Size(held) <= NSlots
    /\ req \in Requests \cup {None}
    /\ applied \in BOOLEAN

Init == held = [l \in Label |-> 0] /\ req = None /\ applied = FALSE

(* Insert a bag of labels: all of them, and only when they fit.           *)
Insert(bag) ==
    /\ Size(held) + Size(bag) <= NSlots
    /\ held' = [l \in Label |-> held[l] + bag[l]]

(* Give every label of namespace u the name n (no change without one).    *)
Modify(u, n) ==
    held' = IF n = NoName THEN held
            ELSE [l \in Label |->
                    IF l.uuid # u THEN held[l]
                    ELSE IF l.name # n THEN 0
                    ELSE MapThenSumSet(LAMBDA m : held[m],
                                       {m \in Label : m.uuid = u /\ m.dpa = l.dpa})]

(* Drop the labels of namespace u at the DPAs ds.                          *)
Remove(u, ds) ==
    held' = [l \in Label |-> IF l.uuid = u /\ l.dpa \in ds THEN 0 ELSE held[l]]

Effect(r) ==
    CASE r.op = "insert" -> Insert(r.bag)
      [] r.op = "modify" -> Modify(r.uuid, r.name)
      [] r.op = "remove" -> Remove(r.uuid, r.dpas)

(* A caller hands over a request; a Modify of a namespace the LSA does    *)
(* not hold returns NotFound without being under way.                      *)
Call ==
    /\ req = None
    /\ req' \in Requests
    /\ req'.op = "modify" => \E l \in Label : l.uuid = req'.uuid /\ held[l] > 0
    /\ applied' = FALSE
    /\ UNCHANGED held

(* The call takes effect, and may return in the same step.                *)
Apply ==
    /\ req # None /\ ~applied
    /\ Effect(req)
    /\ \/ req' = None /\ applied' = FALSE
       \/ UNCHANGED req /\ applied' = TRUE

(* The call returns after its effect.                                      *)
Return ==
    /\ req # None /\ applied
    /\ req' = None /\ applied' = FALSE
    /\ UNCHANGED held

(* The call fails, or power is lost, before it took effect: no change.    *)
Abandon ==
    /\ req # None /\ ~applied
    /\ req' = None
    /\ UNCHANGED <<held, applied>>

Next == Call \/ Apply \/ Return \/ Abandon

Spec == Init /\ [][Next]_<<held, req, applied>>
=============================================================================
