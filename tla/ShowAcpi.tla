------------------------------ MODULE ShowAcpi ------------------------------
(***************************************************************************)
(* The ACPI table printers of common/ShowAcpi.c.                           *)
(*                                                                         *)
(* A "Decode" behaviour calls one field decoder on one input:              *)
(* DecodePcatInterleaveFormatSupported, DecodePcatMemoryModeCapabilities,  *)
(* DecodePcatCurrentMemoryMode with the persistent memory RAS capability   *)
(* list of PrintPcatTable, or DecodeNfitNvDimmStateFlags.  A decoded       *)
(* string is a sequence of its parts; a part of a comma list is a pair    *)
(* <<separator, name>>.                                                    *)
(*                                                                         *)
(* A "Dump" behaviour is a sequence of calls of PrintNFit, PrintPcat and   *)
(* PrintPMTT, as a command makes them, with the file's globals AcpiIndex  *)
(* and TypeIndex shared between them.  A call's table is NULL or a list    *)
(* of subtable entries: for the NFIT and PCAT the pointers of each typed   *)
(* list in the order the printer visits the lists, an entry being a table *)
(* or NULL; for the PMTT the subtable types in byte order, the offset      *)
(* counting subtables.  A printed subtable is the key path it is printed  *)
(* under, <<AcpiIndex - 1, TypeIndex>>, and the call it belongs to.        *)
(***************************************************************************)
EXTENDS Naturals, Sequences, SequencesExt, Bitwise

CONSTANTS
    Modes,           \* "Decode", "Dump"
    CallKinds,       \* printers a Dump may call: "NFIT", "PCAT", "PMTT"
    PcatLists,       \* how many ParsedPcatHeader lists PrintPcat visits
    NfitLists,       \* how many ParsedFitHeader lists PrintNFit visits
    SubtableTypes,   \* PMTT subtable types the firmware may report
    MaxSubtables,    \* most subtables of one PMTT
    MaxCalls         \* most printer calls of one Dump

(* The display strings of the two lookup tables, by C index + 1.           *)
InterleaveSize == <<"64B", "128B", "256B", "Reserved", "Reserved", "Reserved",
                    "4KB", "Reserved">>
NoOfChannelWays == <<"1-way", "2-way", "3-way", "4-way", "6-way", "8-way",
                     "12-way", "16-way", "24-way">>
Skip == 8 + 16 + 32          \* BIT3 | BIT4 | BIT5
Uint16(x) == x % 65536       \* mask2 is a UINT16
Uint8(x) == x % 256          \* the state flags mask is a UINT8
NoSize == "none"             \* the loop ended without printing a size

(* MemoryModesFlags bits in the order DecodePcatMemoryModeCapabilities     *)
(* tests them, with the name each adds.                                    *)
ModeFlags == <<"OneLm", "Memory", "AppDirect", "Storage", "SubNUMAClster">>
ModeNames == [OneLm |-> "1LM", Memory |-> "2LM", AppDirect |-> "AppDirect",
              Storage |-> "Storage", SubNUMAClster |-> "SubNUMA Cluster"]
(* PersistentMemoryRasCapability bits, in PrintPcatTable's order.          *)
RasFlags == <<"Mirroring", "Spare", "Migration">>
RasNames == [f \in ToSet(RasFlags) |-> f]
(* The NVDIMM state flags BIT0..BIT6 DecodeNfitNvDimmStateFlags names.     *)
StateFlagNames == <<"Save failed", "Restore failed", "Flush failed", "Not armed",
                    "Events observed", "Notify OSPM", "Not mapped">>

(* The interleave formats a PCAT may list: every value of one field with   *)
(* the others fixed, and every channel size with some others.             *)
FormatInputs ==
    [recommended : BOOLEAN, channel : 0..255, imc : {0, 8, 64}, ways : {0, 5}]
    \cup [recommended : {TRUE}, channel : {1}, imc : 0..255, ways : {1}]
    \cup [recommended : {FALSE}, channel : {4}, imc : {4}, ways : 0..511]

(* The inputs of one decoder call.                                         *)
DecodeInputs ==
    [kind : {"Interleave"}, fmt : FormatInputs]
    \cup [kind : {"Capability"}, caps : SUBSET ToSet(ModeFlags),
          ras : SUBSET ToSet(RasFlags),
          current : [volatile : 0..3, persistent : 0..3, allowed : 0..3,
                     subNuma : BOOLEAN]]
    \cup [kind : {"StateFlags"}, flags : 0..255 \cup {256, 1024, 32768 + 1}]

(* The entries of one NFIT or PCAT: each list, numbered in the printer's  *)
(* order, holds none, a table or a NULL pointer, visited list by list.     *)
ListEntries(n) ==
    {FlattenSeq([i \in 1..n |-> [j \in 1..Len(f[i]) |-> <<i, f[i][j]>>]]) :
        f \in [1..n -> {<<>>, <<"table">>, <<"null">>}]}

(* The printer calls a Dump may make; a NULL table has no entries.         *)
Calls ==
    [printer : {"NFIT"} \cap CallKinds, present : {TRUE}, entries : ListEntries(NfitLists)]
    \cup [printer : {"PCAT"} \cap CallKinds, present : {TRUE}, entries : ListEntries(PcatLists)]
    \cup [printer : {"PMTT"} \cap CallKinds, present : {TRUE},
          entries : BoundedSeq(SubtableTypes, MaxSubtables)]
    \cup [printer : CallKinds, present : {FALSE}, entries : {<<>>}]

PmttKnown == {"Socket", "iMC", "Module"}

VARIABLES
    mode,      \* "Decode" or "Dump"
    input,     \* the decoder's input (Decode)
    out,       \* the decoded string, NoDecode before the call
    calls,     \* the printer calls (Dump)
    call,      \* index of the current call
    offset,    \* the current call's list index or PMTT offset, in entries
    AcpiIndex, TypeIndex,   \* the globals of ShowAcpi.c
    headers,   \* <<call, AcpiIndex>> of every table header printed
    printed,   \* [call, acpi, type] of every subtable printed
    pc

vars == <<mode, input, out, calls, call, offset, AcpiIndex, TypeIndex,
          headers, printed, pc>>

NoDecode == <<>>

Init ==
    /\ mode \in Modes
    /\ input \in IF mode = "Decode" THEN DecodeInputs
                 ELSE {[kind |-> "StateFlags", flags |-> 0]}
    /\ out = NoDecode
    /\ calls \in IF mode = "Dump" THEN BoundedSeq(Calls, MaxCalls) ELSE {<<>>}
    /\ call = 1 /\ offset = 1
    /\ AcpiIndex = 0 /\ TypeIndex = 0
    /\ headers = {} /\ printed = {}
    /\ pc = IF mode = "Decode" THEN "start" ELSE "call"

-----------------------------------------------------------------------------
(* Mutant: a plain while loop, that shifts once and then probes the       *)
(* reserved bits too.                                                      *)
SkipOnce(mask2, index) == <<Uint16(mask2 * 2), (index + 1) % 256>>

(* The do-while that follows each probe: shift the mask and the index     *)
(* until the mask is off the reserved bits.                                *)
RECURSIVE SkipReserved(_, _)
SkipReserved(mask2, index) ==
    LET m == Uint16(mask2 * 2)
        i == (index + 1) % 256
    IN IF (m & Skip) # 0 THEN SkipReserved(m, i) ELSE <<m, i>>

(* One size loop: the size of the first bit of field the mask reaches,    *)
(* while mask2 <= BIT6.                                                     *)
RECURSIVE SizeLoop(_, _, _)
SizeLoop(field, mask2, index) ==
    IF mask2 > 64 THEN NoSize
    ELSE IF (field & mask2) # 0 THEN InterleaveSize[index + 1]
    ELSE LET next == SkipReserved(mask2, index)
         IN SizeLoop(field, next[1], next[2])

(* The channel ways loop: every bit of BIT0..BIT8 that is set, in order.  *)
RECURSIVE WaysLoop(_, _, _, _)
WaysLoop(field, mask2, index, acc) ==
    IF mask2 > 256 THEN acc
    ELSE WaysLoop(field, Uint16(mask2 * 2), index + 1,
                  IF (field & mask2) # 0 THEN Append(acc, NoOfChannelWays[index + 1])
                  ELSE acc)

(* DecodePcatInterleaveFormatSupported.                                    *)
DecodePcatInterleaveFormatSupported(f) ==
    [recommended |-> f.recommended,
     channel |-> SizeLoop(f.channel, 1, 0),
     imc |-> SizeLoop(f.imc, 1, 0),
     ways |-> WaysLoop(f.ways, 1, 0, <<>>)]

-----------------------------------------------------------------------------
(* CatSPrintClean with FORMAT_STR while the string is still NULL, and     *)
(* FORMAT_STR_WITH_COMMA after.                                            *)
Separator(acc) == IF acc = <<>> THEN "" ELSE ", "

(* One "if (flag) CatSPrintClean(...)" per flag, in the code's order.      *)
CommaList(flags, set, names) ==
    FoldLeft(LAMBDA acc, f : IF f \in set THEN Append(acc, <<Separator(acc), names[f]>>) ELSE acc,
             <<>>, flags)

(* DecodePcatMemoryModeCapabilities.                                       *)
DecodePcatMemoryModeCapabilities(caps) ==
    CommaList(ModeFlags, caps, ModeNames)

(* One 2-bit field of DecodePcatCurrentMemoryMode: a line for 0 and for    *)
(* BIT0, none for the reserved values.                                     *)
ModeLine(field, label, names) ==
    IF (field & 3) = 0 THEN <<<<label, names[1]>>>>
    ELSE IF (field & 3) = 1 THEN <<<<label, names[2]>>>>
    ELSE <<>>

(* DecodePcatCurrentMemoryMode; the SubNUMA line only when the memory     *)
(* mode capabilities name SubNUMA clustering.                               *)
DecodePcatCurrentMemoryMode(cur, caps) ==
    ModeLine(cur.volatile, "CurrentVolatile", <<"1LM", "2LM">>)
    \o ModeLine(cur.persistent, "AllowedPersistent", <<"None", "AppDirect">>)
    \o ModeLine(cur.allowed, "AllowedVolatile", <<"1LM", "2LM">>)
    \o (IF "SubNUMAClster" \in caps
          THEN <<<<"SubNUMA", IF cur.subNuma THEN "Enabled" ELSE "Disabled">>>>
          ELSE <<>>)

(* Mutant: the loop stops before BIT6.                                     *)
RECURSIVE FlagsLoopShort(_, _, _)
FlagsLoopShort(flags, mask, acc) ==
    IF mask >= 64 THEN acc
    ELSE FlagsLoopShort(flags, Uint8(mask * 2),
                        IF (flags & mask) # 0 THEN Append(acc, mask) ELSE acc)

(* The while (mask <= BIT6) loop of DecodeNfitNvDimmStateFlags: the switch *)
(* names the bit the UINT8 mask is on when the flags have it set.          *)
RECURSIVE FlagsLoop(_, _, _)
FlagsLoop(flags, mask, acc) ==
    IF mask > 64 THEN acc
    ELSE FlagsLoop(flags, Uint8(mask * 2),
                   IF (flags & mask) # 0 THEN Append(acc, mask) ELSE acc)

(* DecodeNfitNvDimmStateFlags: one line per flag the loop met.             *)
DecodeNfitNvDimmStateFlags(flags) ==
    LET masks == FlagsLoop(flags, 1, <<>>)
        bit(m) == CHOOSE b \in 0..6 : 2^b = m
    IN [i \in 1..Len(masks) |-> StateFlagNames[bit(masks[i]) + 1]]

(* The call of one decoder on its input.                                   *)
Decode ==
    /\ mode = "Decode" /\ pc = "start"
    /\ out' = CASE input.kind = "Interleave" -> DecodePcatInterleaveFormatSupported(input.fmt)
                [] input.kind = "Capability" ->
                     [caps |-> DecodePcatMemoryModeCapabilities(input.caps),
                      current |-> DecodePcatCurrentMemoryMode(input.current, input.caps),
                      ras |-> CommaList(RasFlags, input.ras, RasNames)]
                [] input.kind = "StateFlags" -> DecodeNfitNvDimmStateFlags(input.flags)
    /\ pc' = "done"
    /\ UNCHANGED <<mode, input, calls, call, offset, AcpiIndex, TypeIndex, headers, printed>>

-----------------------------------------------------------------------------
(* Mutant: the subtable path takes AcpiIndex as it is.                      *)
SubtableAcpiNoDecrement(a) == a

(* PRINTER_BUILD_KEY_PATH(pTypePath, ..., AcpiIndex - 1, TypeIndex): a     *)
(* subtable is printed under the table whose header took AcpiIndex last.  *)
SubtableAcpi(a) == a - 1

Cur == calls[call]

(* A subtable is printed under the current path and TypeIndex moves on.    *)
PrintSubtable ==
    /\ printed' = printed \cup {[call |-> call, acpi |-> SubtableAcpi(AcpiIndex), type |-> TypeIndex]}
    /\ TypeIndex' = TypeIndex + 1

(* PrintAcpiHeader prints the table header under pPath, the path built   *)
(* from AcpiIndex before the printer moved it on.                          *)
PrintAcpiHeader == headers' = headers \cup {<<call, AcpiIndex>>}

(* PrintNFit, PrintPcat or PrintPMTT is called: a NULL table returns at    *)
(* once; otherwise the table's path takes AcpiIndex, AcpiIndex moves on,   *)
(* and PrintAcpiHeader prints the header.                                  *)
BeginCall ==
    /\ mode = "Dump" /\ pc = "call" /\ call <= Len(calls)
    /\ IF Cur.present
         THEN /\ PrintAcpiHeader
              /\ AcpiIndex' = AcpiIndex + 1
              /\ offset' = 1
              /\ pc' = Cur.printer
              /\ UNCHANGED call
         ELSE /\ call' = call + 1
              /\ UNCHANGED <<headers, AcpiIndex, offset, pc>>
    /\ UNCHANGED <<mode, input, out, calls, TypeIndex, printed>>

(* One pass of PrintPcat's list loops: a NULL pointer returns from         *)
(* PrintPcat, skipping every later list; a table goes to PrintPcatTable.   *)
PcatEntry ==
    /\ pc = "PCAT" /\ offset <= Len(Cur.entries)
    /\ IF Cur.entries[offset][2] = "null"
         THEN /\ pc' = "call" /\ call' = call + 1
              /\ UNCHANGED <<offset, TypeIndex, printed>>
         ELSE /\ PrintSubtable
              /\ offset' = offset + 1
              /\ UNCHANGED <<pc, call>>
    /\ UNCHANGED <<mode, input, out, calls, AcpiIndex, headers>>

(* One pass of PrintNFit's list loops: PrintFitTable returns at once on a  *)
(* NULL pointer and prints a table otherwise.                              *)
NfitEntry ==
    /\ pc = "NFIT" /\ offset <= Len(Cur.entries)
    /\ IF Cur.entries[offset][2] = "null"
         THEN UNCHANGED <<TypeIndex, printed>>
         ELSE PrintSubtable
    /\ offset' = offset + 1
    /\ UNCHANGED <<mode, input, out, calls, call, AcpiIndex, headers, pc>>

(* Mutant: the module branch forgets to move the offset on.               *)
WalkPmttModuleStalls ==
    /\ pc = "PMTT" /\ offset <= Len(Cur.entries)
    /\ \/ /\ Cur.entries[offset] \in PmttKnown \ {"Module"}
          /\ PrintSubtable
          /\ offset' = offset + 1
       \/ /\ Cur.entries[offset] \notin PmttKnown \ {"Module"}
          /\ UNCHANGED <<TypeIndex, printed, offset>>
    /\ UNCHANGED <<mode, input, out, calls, call, AcpiIndex, headers, pc>>

(* One pass of PrintPMTT's while loop: a socket, iMC or module subtable is *)
(* printed and the offset moves past it; any other type matches no branch *)
(* and the offset stays where it is.                                       *)
WalkPmtt ==
    /\ pc = "PMTT" /\ offset <= Len(Cur.entries)
    /\ \/ /\ Cur.entries[offset] \in PmttKnown
          /\ PrintSubtable
          /\ offset' = offset + 1
       \/ /\ Cur.entries[offset] \notin PmttKnown
          /\ UNCHANGED <<TypeIndex, printed, offset>>
    /\ UNCHANGED <<mode, input, out, calls, call, AcpiIndex, headers, pc>>

(* The printer's loops end: past the last list, or Offset reached the      *)
(* PMTT length.                                                            *)
EndCall ==
    /\ pc \in {"NFIT", "PCAT", "PMTT"} /\ offset > Len(Cur.entries)
    /\ pc' = "call" /\ call' = call + 1
    /\ UNCHANGED <<mode, input, out, calls, offset, AcpiIndex, TypeIndex, headers, printed>>

(* Every call has returned.                                                *)
EndDump ==
    /\ mode = "Dump" /\ pc = "call" /\ call > Len(calls)
    /\ pc' = "done"
    /\ UNCHANGED <<mode, input, out, calls, call, offset, AcpiIndex, TypeIndex, headers, printed>>

Next == Decode \/ BeginCall \/ PcatEntry \/ NfitEntry \/ WalkPmtt \/ EndCall \/ EndDump

Spec == Init /\ [][Next]_vars

(* The steps of a dump. A decoder call is a single step with nothing to    *)
(* wait for, so no fairness is claimed for it.                             *)
DumpStep == BeginCall \/ PcatEntry \/ NfitEntry \/ WalkPmtt \/ EndCall \/ EndDump

(* The printers run on one thread and loop without waiting on anything.   *)
FairSpec == Spec /\ WF_vars(DumpStep)

-----------------------------------------------------------------------------
(* Reference: the size a field names is that of its lowest bit among the  *)
(* defined sizes 64B, 128B, 256B (bits 0-2) and 4KB (bit 6); the reserved *)
(* bits name none.  The channel ways are every defined way whose bit is   *)
(* set, smallest first.                                                    *)
SizeBits == [b \in {0, 1, 2, 6} |-> InterleaveSize[b + 1]]
RefSize(field) ==
    LET set == {b \in DOMAIN SizeBits : (field \div 2^b) % 2 = 1}
    IN IF set = {} THEN NoSize
       ELSE SizeBits[CHOOSE b \in set : \A c \in set : b <= c]
RefWays(field) ==
    LET set == {b \in 0..8 : (field \div 2^b) % 2 = 1}
        nth(i) == CHOOSE b \in set : Cardinality({c \in set : c < b}) = i - 1
    IN [i \in 1..Cardinality(set) |-> NoOfChannelWays[nth(i) + 1]]

(* Reference: the state flags named are exactly bits 0-6 of the UINT16,   *)
(* lowest first; the higher bits are reserved.                             *)
RefStateFlags(flags) ==
    LET set == {b \in 0..6 : (flags \div 2^b) % 2 = 1}
        nth(i) == CHOOSE b \in set : Cardinality({c \in set : c < b}) = i - 1
    IN [i \in 1..Cardinality(set) |-> StateFlagNames[nth(i) + 1]]

(* The decoded interleave format shows, for the channel and iMC interleave *)
(* sizes, the lowest defined size whose bit is set and never a "Reserved" *)
(* label, and lists exactly the channel ways whose bits are set: the mask, *)
(* index and reserved-bit skip of the three loops of                       *)
(* DecodePcatInterleaveFormatSupported stay in step.                       *)
DecodeMatchesReference ==
    (mode = "Decode" /\ pc = "done" /\ input.kind = "Interleave") =>
        /\ out.channel = RefSize(input.fmt.channel)
        /\ out.imc = RefSize(input.fmt.imc)
        /\ out.ways = RefWays(input.fmt.ways)
        /\ out.recommended = input.fmt.recommended

(* DecodeNfitNvDimmStateFlags names exactly the state flags BIT0..BIT6 set *)
(* in the UINT16, whatever the reserved bits hold: the UINT8 mask reaches *)
(* BIT6 and the loop ends.                                                  *)
StateFlagsMatchReference ==
    (mode = "Decode" /\ pc = "done" /\ input.kind = "StateFlags") =>
        out = RefStateFlags(input.flags)

(* Every subtable printed in a Dump is keyed under the path of the table  *)
(* it belongs to, whatever NULL tables and NULL list entries earlier calls *)
(* met, and no two subtables share a key path: AcpiIndex and TypeIndex,   *)
(* shared by PrintNFit, PrintPcat and PrintPMTT, stay in step.             *)
PathsIdentifyTables ==
    /\ \A e \in printed : <<e.call, e.acpi>> \in headers
    /\ \A e, f \in printed : e # f => <<e.acpi, e.type>> # <<f.acpi, f.type>>

(* The PMTTs of a dump hold only socket, iMC and module subtables.         *)
KnownSubtablesOnly ==
    \A i \in 1..Len(calls) :
        calls[i].printer = "PMTT" => \A j \in 1..Len(calls[i].entries) : calls[i].entries[j] \in PmttKnown

(* A dump whose PMTTs hold only the subtable types PrintPMTT knows always *)
(* finishes: every list loop of PrintPcat and                              *)
(* PrintNFit ends, a NULL entry or table returns to the caller, and the   *)
(* PMTT offset moves past every subtable.                                  *)
EveryCallReturns == (mode = "Dump" /\ KnownSubtablesOnly) ~> (pc = "done")

(* Every call of PrintPMTT returns: the walk reaches the end of the table *)
(* whatever subtables the firmware put in it.                              *)
PmttWalkTerminates == <>(pc = "done")
=============================================================================
