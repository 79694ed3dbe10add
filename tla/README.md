# TLA+ models of ipmctl

This directory holds TLA+ specifications of parts of the ipmctl sources under
`src/`, the TLC configurations that check them, and `PROJECT.json`. That file
records the components, runs, mutants, the mapping from definitions to source
lines, the findings and the hazards.

Check a model with:

```
tlasany M.tla
tlc -workers 2 -config X.cfg M
```

## The system and how its parts interact

ipmctl manages persistent-memory DIMMs. The sources here are one slice of it:

- **Namespace core** (`driver/Core/Namespace.h`). It declares the namespace
  machinery, and spec.md describes that machinery's behaviour:
  - the Label Storage Area (LSA) of each DIMM holds two index blocks and an
    array of label slots;
  - the active index block is the valid one with the newer sequence number;
  - an update writes labels first, then the standby index block with the next
    sequence number;
  - the Label Manager inserts, modifies and removes namespace labels through it;
  - the capacity allocator finds a DPA range free on every DIMM of an
    interleave set (or on one DIMM) and takes it in an in-memory free map;
    the labels of the new namespace are then written DIMM by DIMM, with no
    rollback when one write fails;
  - the namespace inventory (`InitializeNamespaces`) rebuilds the namespaces
    list and the free map from the labels on every DIMM when the driver
    loads, and flags a namespace with missing labels instead of dropping it.

  `delete -pcd` reaches this machinery: with the LSA target, `ModifyPcdConfig`
  zeroes the LSA of each selected DIMM, and `DeletePcdCmd` never asks whether a
  namespace lives there.

  Only prototypes and their doc blocks are under `src/`. The function bodies
  are not.
- **Diagnostics core** (`driver/Core/Diagnostics/CoreDiagnostics.c`). It runs
  the quick, config, security and firmware tests on DIMMs. It keeps the first
  error and merges the tests' messages and states into one result string.
- **CLI commands** (`cli/*.c`):
  - `delete -pcd` clears Platform Config Data partitions through the driver's
    `ModifyPcdConfig`;
  - `show -sensor` prints sensor attributes of each DIMM;
  - `show -dimm` and `show -memoryresources` print inventory and capacity. The CLI
    dispatches one of them per command line.
- **ACPI printers** (`common/ShowAcpi.c`). They print the NFIT, PCAT and PMTT
  tables that firmware hands to the driver. A command calls `PrintNFit`,
  `PrintPcat` and `PrintPMTT` one after another. They share the file's globals
  `AcpiIndex` and `TypeIndex`, which key every printed table and subtable and
  are never reset.

The CLI commands call into the driver through the config protocol. The models
treat each driver call as one step with every outcome the code handles: success
or each error code. The printers read firmware tables, so their inputs are
every table of a bounded size.

## Modules

| Module | Models | Kind |
|---|---|---|
| `LabelMap` | What the LSA promises its callers (spec.md 4.3): a multiset of labels, and calls of Insert, Modify and Remove that each take effect in one step between the call and its return, whole or not at all. An Insert with more labels than free slots takes no effect. | abstract |
| `LsaStore` | The two index blocks, label slots, standby-first commit, torn index writes and power loss, on one DIMM. Refines `LabelMap`. | detailed, spec_modelled bodies |
| `DeletePcd` | `DeletePcdCmd`: target validation, mask selection, DIMM selection, prompts and `ModifyPcdConfig`. | from source |
| `Namespaces` | The capacity allocator and namespace inventory on one interleave set (spec.md 4.4, 4.5, 5): `FindADMemmapRangeInIS`, `AllocateNamespaceCapacity`, per-DIMM `InsertNamespaceLabels` and `RemoveNamespaceLabels` that may fail, `ZeroLabelStorageArea` and `InitializeNamespaces`. Each DIMM's LSA is atomic here, which `LsaStore` justifies by refining `LabelMap`. | spec_modelled bodies |
| `PcdNamespaces` | `delete -pcd` composed with `Namespaces`: `ModifyPcdConfig` zeroes the LSA of every DIMM whose LSA partition it cleared; namespaces are created and deleted before and after the command, and the driver may restart. | composition |
| `Diagnostics`, `MC_Diagnostics` | `CoreStartDiagnostics`, `CoreStartDiagnosticsDetail`, `CombineDiagnosticsTestResults` and `GetDiagnosticState`. The MC module gives the bounded set of test outcomes. | from source |
| `ShowSensor` | `ShowSensor`: setup failures, the DIMM loop with `-dimm` filtering, unreadable DIMMs, the `FIS_1_13` flag and the attribute switch. | from source |
| `ShowDimms`, `MC_ShowDimms` | `ShowDimms` and `IsDimmsMixedSkuCfg`: setup failures, `-dimm`/`-socket` selection, the table loop, the detailed loop and the null-value check. The MC module gives nine DIMM_INFO records that each vary one field. | from source |
| `ShowMemoryResources` | `ShowMemoryResources`: setup failures and the six `MakeCapacityString` calls. | from source |
| `ShowCli`, `MC_ShowCli` | The CLI dispatching `show -dimm` or `show -memoryresources`. It composes the two modules through `INSTANCE` with renamed variables. | composition |
| `ShowAcpi` | All of `ShowAcpi.c`. The field decoders are operators, and the bit loops are RECURSIVE operators. A "Dump" behaviour is a sequence of `PrintNFit`, `PrintPcat` and `PrintPMTT` calls that share `AcpiIndex` and `TypeIndex`. | from source |

### How state and actions correspond to the code

- **LsaStore**
  - `index[b]` is index block b: its valid flag, sequence number and free set.
    `slot[s]` is label slot s.
  - `Active` selects the newer valid block with a modular sequence comparison,
    as `ReadLabelStorageArea` does.
  - `InsertNamespaceLabels`, `ModifyNamespaceLabels` and
    `RemoveNamespaceLabels` compute the new free set and the labels to write.
  - `WriteLabel` writes them one slot at a time.
  - `UpdateLsaIndex` writes the standby block with `NextSeq`.
  - `TornIndexWrite` and `PowerLoss` are the failures spec.md 4.2 names.
  - `request` is a history variable: the operation under way, as its caller
    asked for it. It is not state of the code.
  - The refinement mapping to `LabelMap` has three parts:
    - `held` counts the labels in the slots the active block marks in use;
    - the call under way is `request`;
    - a Modify has taken effect (`modified`) once its label is rewritten in
      place. An Insert or a Remove takes effect when the index block is
      written, and returns in the same step.
- **DeletePcd**
  - `pc` follows the steps of `DeletePcdCmd`. `mask` is `ConfigIdMask`, `ids`
    is `pDimmIds`, and `cleared` is what `ModifyPcdConfig` did on each DIMM.
  - Every early `goto Finish` is a `Fail(code)` disjunct.
  - The Config partitions (CIN, COUT, CCUR) are always cleared together, so they
    are modelled as one partition.
- **Namespaces**
  - `labels[d]` is the set of labels in DIMM d's LSA, each with its DPA range
    and the number of labels its namespace has; `nsList` is the driver's
    namespaces list; `used[d]` is the in-memory free map (units taken).
  - `AllocateNamespaceCapacity` picks a fresh UUID, a target (the set or one
    DIMM) and a size (or `Largest` for MAX_UINT64), asks
    `FindADMemmapRangeInIS`, and on success takes the range in `used` and
    starts the label writes; otherwise it returns `OutOfResources`.
  - `InsertNamespaceLabels` and `RemoveNamespaceLabels` are one step per DIMM,
    in DIMM order. Each may fail, which stops the operation with the earlier
    DIMMs done. Only the last success lists (or unlists and frees) the
    namespace.
  - `InitializeNamespaces` may run at any point of a creation or delete: it is
    a restart that loses everything but the labels.
- **PcdNamespaces**
  - `CommandStep` is any `DeletePcd` step before `ModifyPcdConfig`;
    `ClearPartitions` is `ModifyPcdConfig` joined with `ZeroLabelStorageArea`
    of the DIMMs whose LSA it cleared.
  - Namespace operations and restarts happen only while no command step is
    running (`pc` is "start" or "done"): the shell and the driver run on one
    thread.
- **Diagnostics**
  - `next` steps through the four `if` blocks of `CoreStartDiagnostics`.
  - `ran` records each test run with the DIMMs it was given and its outcome.
  - `report` is the state string shown for each test.
  - `KeepError` is `KEEP_ERROR`.
  - `RunFirstSelectedTest` is one call of `CoreStartDiagnosticsDetail`. Its
    else-if chain, which runs only the first selected test, is
    `FirstSelected`.
- **ShowSensor**
  - `idx` is `DimmIndex`, `FIS_1_13` is the flag of the same name and `rc` is
    `ReturnCode`.
  - `shown` is the set of <<DIMM, sensor, attribute, value>> entries printed.
  - A value is abstracted to "value" or "N/A".
- **ShowDimms**
  - `dimm` is the `DIMM_INFO` list. Each record keeps only what the control
    flow reads: socket, manageability, FIS 1.13+ firmware, an App Direct
    interface format code, the ErrorMask bits and the SKU.
  - `idx` is `DimmIndex`. `FIS_2_0`, `ByteAddressable` and `IsMixedSku` are the
    flags of the same name. `nulls` stands for
    `gNullValuesEncounteredForDisplay > 0`. `rc` is `ReturnCode`.
  - `rc` follows every assignment in the loop, in order:
    - `GetPreferredDimmIdAsString`, whose result is one of `IdResults`;
    - `MakeCapacityString`;
    - the health-state reason conversion. It returns EFI_SUCCESS with a
      NULL string, and then the command ends with success.
  - An interface format code without App Direct leaves the printed string
    NULL ("null"), which `-display` counts as a NULL value.
  - `shown` holds the printed <<DIMM, attribute, value>> entries. There is one
    attribute of each kind the loop handles. Two entries stand for the
    attributes printed straight from `DIMM_INFO`. `Plain` covers those
    printed before the health-state reason. `Inventory` covers Manageability
    through FormFactor, which the `goto Finish` skips.
  - `ManageableEntries` is the block for a manageable DIMM. Its parts,
    `MaxControllerTemperatureEntry` and `MixedSkuEntry`, follow the code's
    branches. `NotApplicableEntries` is the N/A loop over
    `pOnlyManageableAllowedDisplayValues` for an unmanageable DIMM.
  - `VisitDimm` is one pass of the detailed loop body, with every driver
    outcome as an `\E`. That includes the `goto Finish` on the health-state
    reason.
  - The printer counts a NULL value only while `gDisplayNulls` is set, which
    is only for `-display` (`DisplayNulls`). The printer is not under `src/`.
    This reading follows the variable names and the message
    `CLI_ERR_SOME_VALUES_NOT_SUPPORTED`.
- **ShowMemoryResources**
  - `next` indexes the six capacities and `shown` records each one's value.
    `KeepError` is `KEEP_ERROR`.
- **ShowCli**
  - `command` is the verb the parser dispatched. `RunShowDimms` and
    `RunShowMemoryResources` step only the chosen handler.
- **ShowAcpi**
  - The loops' mask and index variables are the arguments of `SkipReserved`,
    `SizeLoop` and `WaysLoop`. The mask keeps its UINT16 width.
  - `mode` picks the behaviour. In "Decode", `Decode` is one decoder call on
    `input`, and `out` is its result. A comma list is a sequence of
    `<<separator, name>>` pairs; `Separator` is the code's
    `(s == NULL) ? FORMAT_STR : FORMAT_STR_WITH_COMMA`.
    `FlagsLoop` keeps the UINT8 width of its mask.
  - In "Dump", `calls` holds the printer calls, and a NULL table is
    `present = FALSE`. For the NFIT and PCAT, a call's `entries` are the list
    pointers in the order the printer visits them; each entry is a table or NULL.
    For the PMTT, `entries` are the subtable types, and `offset` counts subtables.
  - `BeginCall` is a printer's prologue: the NULL return, the path,
    `AcpiIndex++` and `PrintAcpiHeader`, which records `<<call, AcpiIndex>>` in
    `headers`.
  - `PcatEntry`, `NfitEntry` and `WalkPmtt` are one pass of the printers'
    loops. `PrintSubtable` is what `PrintPcatTable` and `PrintFitTable` do to
    state: they key the subtable by `<<AcpiIndex - 1, TypeIndex>>`, record it in
    `printed`, and do `TypeIndex++`. A NULL entry ends `PrintPcat`, but
    `PrintNFit` just skips it.

## Runs

| Run | Expect | What it shows |
|---|---|---|
| `lsa_store` | pass | Single-label inserts, modifies and removes are checked with a torn write or power loss at every step. Under them the store refines `LabelMap` (`AtomicLabelStore`): each call takes effect as asked, with all of its labels or none. This includes an Insert that finds too few free slots, which must change nothing. Every slot in use holds a complete label (`InUseSlotsHoldLabels`). |
| `lsa_multirange` | violation | A namespace has two labels on one DIMM. A Modify loses power after rewriting one label in place, and readers then see a half-renamed namespace. This is finding 1. |
| `deletepcd` | pass | Checked on `PcdNamespaces`. For each documented `-pcd` value, every build, every `-dimm` choice and every sequence of answers, only the requested partitions are cleared, only on the selected DIMMs (`ClearedAsRequested`), and only with `-force` or after both prompts (`ConsentBeforeClear`). Around the command, namespaces are created and deleted with failures on either DIMM and restarts anywhere, and the command may zero one DIMM's LSA under an App Direct namespace. No two labels on a DIMM share a DPA (`NoDoubleAllocation`), and the in-memory free map covers every label on the media (`UsedCoversMedia`). |
| `deletepcd_badvalue` | violation | `delete -pcd Other` falls through to the default mask, which clears every partition. This is finding 2. |
| `diagnostics` | pass | Both entry points report every test that ran with its most severe state (`EveryRunTestReported`) and return the first error (`FirstErrorKept`). |
| `diagnostics_detail` | violation | `CoreStartDiagnosticsDetail` runs only the first selected test and still returns success. This is finding 3. |
| `showsensor` | pass | A successful `show -sensor` shows every wanted attribute of every selected readable DIMM (`EveryReadableDimmShown`). |
| `showsensor_maxtemp` | violation | The `FIS_1_13` flag carries over from one DIMM to the next. This is finding 4. |
| `showcli` | pass | `show -dimm`, once it finishes its loop, has listed exactly the DIMMs that `-dimm` and `-socket` select (`ListsExactlySelection`). It never prints MixedSku 0 on a platform with two manageable DIMMs of different SKUs (`MixedSkuDetected`). `show -memoryresources` returns success exactly when all six capacities were formatted (`CapacityFailureReported`). |
| `showdimms_stale` | violation | `ByteAddressable` (and `FIS_2_0`) survive from one DIMM to the next. An unmanageable DIMM without App Direct is then printed with the App Direct interface format code. This is finding 6. |
| `acpi_decode` | pass | The interleave-format loops agree with a reference decoding for every value of each field (`DecodeMatchesReference`). The state-flag loop names exactly bits 0-6 (`StateFlagsMatchReference`). Over every sequence of up to two printer calls, with NULL tables and NULL entries, each subtable is keyed under its own table's header, and no two subtables share a key (`PathsIdentifyTables`). Every dump whose PMTTs hold only socket, iMC and module subtables finishes (`EveryCallReturns`): the list loops end, a NULL entry or table returns, and the PMTT offset passes every subtable. |
| `pmtt_unknown_type` | violation | A subtable of a type the printer does not know stops `PrintPMTT`'s offset, so the loop never ends. This is finding 5. |

Each property of a passing run has a mutant in `PROJECT.json`: a plausible bug
in the mapped definition, which TLC shows the property catches. Some examples:
- a last-error-wins `KEEP_ERROR`;
- a per-DIMM loop that runs past the end;
- a sequence number without wrap-around;
- a do-while skip loop turned into a single shift.

## Bounds and why they suffice

- **LsaStore:**
  - 3 UUIDs, 2 names, 1 DPA and 2 slots. A namespace has one label per
    device here, so an Insert can find too few free slots only when there are
    more UUIDs than slots. With two namespaces present and one removed, an
    Insert of two new labels meets one free slot.
  - One DPA is enough, because each UUID has at most one label. A Remove at
    another DPA would be a no-op.
  - `SeqModulus = 4` stands for the 32-bit sequence number. The two blocks
    differ by one increment, so only the wrap matters, and 4 reaches it within
    the depth.
  - `MaxInsert = 2` allows a multi-label insert.
- **DeletePcd:** 2 DIMMs give a selected DIMM and an unselected one, and one
  per-DIMM prompt after another.
- **Namespaces (in `deletepcd`):** 2 DIMMs with 2 DPA units each, 2 UUIDs,
  requests of 1 unit or the largest run, and `MaxNsOps = 2` creations or
  deletes in all (restarts are not counted: a second restart in a row changes
  nothing). That reaches a block namespace on one DIMM followed by an App
  Direct one that must avoid it, a creation or delete failing on the second
  DIMM, and an App Direct namespace half-erased by `delete -pcd`, rebuilt by a
  restart and followed by a creation on the erased DIMM. With 3 operations the
  run grows to 3.6 million states for no new kind of step.
- **Diagnostics:**
  - 2 DIMMs plus one bad id.
  - The five outcomes cover success with no message, with ok messages and with
    a warning, and two different errors (`MC_Diagnostics.MCOutcomes`). Their
    states have one or two severities. Two severities exercise the priority of `GetDiagnosticState`.
- **ShowSensor:** 3 DIMMs, so a DIMM with newer firmware can sit between two
  others. The display options are default, all, and one attribute.
- **ShowDimms / ShowCli:** 2 DIMMs drawn from 9 records, over 2 sockets and
  2 SKUs.
  - That gives a selected DIMM beside an unselected one.
  - It gives a DIMM after another with a different flag: the smallest case of
    a stale flag.
  - It gives an unmanageable first DIMM and two SKUs for the mixed-SKU check.
  - The options are the table, `-all`, and two single `-display` attributes.
- **ShowAcpi:**
  - Each interleave field takes every value its width allows while the other
    fields are fixed: 0..255 for the sizes and 0..511 for the ways.
  - The memory-mode decoders take every subset of the flags and every value of
    the 2-bit mode fields, reserved values included. The state flags take every
    UINT8 value and three values with high bits set.
  - A dump makes up to 2 calls. A call is a NULL table, an NFIT with 2 lists, a
    PCAT with 3 lists, or a PMTT with up to 2 subtables of the socket, iMC, module
    and an unknown type. Each list holds
    nothing, a table or a NULL entry. This covers a NULL entry ending a PCAT
    before a later call, a NULL table between two tables, and an unknown PMTT
    type. In the pmtt run, a PMTT has up to 3 subtables of 4 types.

## Fairness

Only `ShowAcpi` states liveness properties. Its `FairSpec` assumes weak fairness
of `DumpStep`, the steps of a dump (`BeginCall`, `PcatEntry`, `NfitEntry`,
`WalkPmtt`, `EndCall`, `EndDump`). That is justified because the printers run on
one thread and their loops wait on nothing. A decoder call is one step, and no
property asks that it happen, so it gets no fairness. Every other model is checked for safety only, with no
fairness.

Where `CHECK_DEADLOCK FALSE` is set, it is because the command really ends. Its
final state `pc = "done"` has no successor. `LsaStore` is checked for deadlock:
a DIMM can always take another call.

## Not modelled, and why

- **Binary Layout Codec.** The byte serialisation and checksums of index blocks
  and labels are not under `src/`. A checksum failure appears in `LsaStore` as
  `TornIndexWrite`.
- **Capacity alignment** (`AlignNamespaceCapacity`,
  `GetRealRawSizeAndRealBlockSize`). Only prototypes exist, and spec.md leaves
  the rounding direction of `AlignNamespaceCapacity` open. `Namespaces` counts
  DPA in whole units, so both are the identity on its sizes and are left out
  rather than modelled as one.
- **Interleave-set cookies** (`CalculateISetCookie`). `Namespaces` has one
  interleave-set geometry, so no label can carry a stale cookie; an
  inconsistent namespace there is one with missing labels.
- **Namespace lookups** (`GetNamespaceByName`, `GetNamespaceById`,
  `GenerateNamespaceId`). They read the list and change nothing.
- **Namespace block I/O.** This is data transfer with no control of interest.
- **Diagnostics event logging** (CoreDiagnostics.c lines 27-210). It formats
  strings. Only its NULL-string failure is kept, as `HiiCanFail`.
- **ShowDimms string helpers** (`ManageabilityToString`,
  `FormFactorToString` and others). They only format values. The plain
  attributes are one abstract entry.
- **The printer** (`gNullValuesEncounteredForDisplay` counting). It is not
  under `src/`. Its behaviour is assumed, as described under ShowDimms.
- **The mixed-SKU false positive.** `IsDimmsMixedSkuCfg` compares with an
  unmanageable `pDimms[0]`. It is listed as a hazard, but it has no run
  because the project is at its limit of runs.
- **ShowAcpi field values.** Addresses, GUIDs, sizes and the header fields are
  only formatted, so a subtable is just its key path. The out-of-bounds read
  of `MemoryMode[]` (line 363) is listed as a hazard. It has no run, because
  the project is at its limit of runs and the value read is never printed.
- **CLI headers.** They hold declarations only.

## Plan for later sittings

1. Fold more properties into the existing runs instead of adding runs.
2. Add interleave-set cookies to `Namespaces`, with a reconfiguration that
   changes the geometry under existing labels.
3. Model the byte offsets of `PrintPMTT`, so that a subtable whose `Length`
   differs from its type's size is misparsed (line 825).
4. Add a run with `HiiCanFail = TRUE` for the dropped test result at
   CoreDiagnostics.c:317.
