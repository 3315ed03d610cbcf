---------------------------- MODULE AtomicStore ----------------------------
(* util/atomic_store.cpp: a file with two banks and a header that says which  *)
(* one is current.  A payload is written to the other bank, then the header.  *)
(*                                                                            *)
(* write_raw() calls fsync() before fclose() hands the buffered bytes to the  *)
(* kernel: an fsync makes durable what the write_raw before it wrote.  A      *)
(* crash of the process loses the bytes in its buffer, a loss of power any    *)
(* part of what the kernel has not made durable.                              *)
(*                                                                            *)
(* The model begins with an initialized store; payloads are shorter than a    *)
(* bank and not empty, and their bytes are their name, over and over.         *)
EXTENDS Naturals

CONSTANTS
    Names,                  \* identities of payloads
    BankSize,               \* cells of a bank
    MaxWrites,              \* bound: payloads written
    MaxCrashes              \* bound: crashes and losses of power

Nul == 0
ASSUME NamesAssumption == Nul \notin Names
ASSUME SizesAssumption == BankSize \in Nat \ {0, 1} /\ MaxWrites \in Nat /\ MaxCrashes \in Nat

VARIABLES
    bank, cells,            \* the file as the kernel has it: header, banks
    dbank, dcells,          \* the file as it is on the disk
    pc,                     \* the next step of the call being made
    target, payload,        \* its arguments
    atomic,                 \* history: it does not overwrite the current bank
    current,                \* history: the payloads the current bank may hold
    fallback,               \* history: those a loss of power may bring back
    written,                \* history: the payload of the last call that ended,
                            \* as long as nothing may have destroyed it
    writes, crashes         \* how much of each bound is used

file == <<bank, cells>>
disk == <<dbank, dcells>>
call == <<target, payload, atomic>>
history == <<current, fallback, written>>
fileVars == <<file, disk, pc, call, history, writes, crashes>>

Banks == {0, 1}
Payload == [name : Names, size : 1..(BankSize - 1)]
Empty == [name |-> Nul, size |-> 0]
Garbage == [name |-> Nul, size |-> BankSize]    \* nothing is known of a bank
Content == [1..BankSize -> Names \cup {Nul}]

FileInit ==
    /\ bank = 0
    /\ cells = [b \in Banks |-> [i \in 1..BankSize |-> Nul]]
    /\ dbank = bank /\ dcells = cells
    /\ pc = "idle"
    /\ target = 0 /\ payload = Empty /\ atomic = TRUE
    /\ current = {Empty} /\ fallback = {Empty}
    /\ written = Empty
    /\ writes = 0 /\ crashes = 0

-----------------------------------------------------------------------------
(* The calls.  Both go through the same four steps. *)

InverseBank(b) == IF b = 0 THEN 1 ELSE 0

Call(b, p, isAtomic) ==
    /\ pc = "idle"
    /\ writes < MaxWrites
    /\ writes' = writes + 1
    /\ target' = b
    /\ payload' = p
    /\ atomic' = isAtomic
    /\ pc' = "syncBefore"
    /\ UNCHANGED <<file, disk, history, crashes>>

\* write_payload(data)
WritePayload(p) == Call(InverseBank(bank), p, TRUE)

\* write_payload(bank, data), which may name the current bank.
WritePayloadTo(b, p) == Call(b, p, b # bank)

\* Mutant: fsync() is not called, or fails unseen.
NoFsync(from, to) ==
    /\ pc = from
    /\ pc' = to
    /\ UNCHANGED <<file, disk, call, history, writes, crashes>>

\* fsync() of write_raw(), while its own bytes are still in the buffer.
Fsync(from, to) ==
    /\ pc = from
    /\ pc' = to
    /\ dbank' = bank /\ dcells' = cells
    /\ UNCHANGED <<file, call, history, writes, crashes>>

\* The bytes of a payload over those that were there: no Nul ends them.
Over(p, old) == [i \in 1..BankSize |-> IF i <= p.size THEN p.name ELSE old[i]]

\* fclose() of the write_raw() of the payload.
WriteBank ==
    /\ pc = "writeBank"
    /\ pc' = "syncBetween"
    /\ cells' = [cells EXCEPT ![target] = Over(payload, @)]
    /\ current' = IF atomic THEN current ELSE {payload}
    /\ fallback' = IF atomic THEN current ELSE {Garbage}
    /\ written' = IF atomic THEN written ELSE Garbage
    /\ UNCHANGED <<bank, disk, call, writes, crashes>>

\* fclose() of write_bank_number()
WriteHeader ==
    /\ pc = "writeHeader"
    /\ pc' = "idle"
    /\ bank' = target
    /\ current' = {payload}
    /\ fallback' = current
    /\ written' = payload
    /\ UNCHANGED <<cells, disk, call, writes, crashes>>

-----------------------------------------------------------------------------
\* The process dies; the kernel's file stays.
Crash ==
    /\ crashes < MaxCrashes
    /\ pc # "idle"
    /\ crashes' = crashes + 1
    /\ pc' = "idle"
    /\ UNCHANGED <<file, disk, call, history, writes>>

\* The power goes: each cell is the kernel's or the disk's.
PowerLoss ==
    /\ crashes < MaxCrashes
    /\ crashes' = crashes + 1
    /\ pc' = "idle"
    /\ bank' \in {bank, dbank}
    /\ cells' \in {c \in [Banks -> Content] :
                      \A b \in Banks, i \in 1..BankSize : c[b][i] \in {cells[b][i], dcells[b][i]}}
    /\ dbank' = bank' /\ dcells' = cells'
    /\ current' = current \cup fallback
    /\ fallback' = current'
    /\ written' = Garbage
    /\ UNCHANGED <<call, writes>>

-----------------------------------------------------------------------------
FileNext == \/ \E p \in Payload : WritePayload(p) \/ \E b \in Banks : WritePayloadTo(b, p)
        \/ Fsync("syncBefore", "writeBank") \/ WriteBank
        \/ Fsync("syncBetween", "writeHeader") \/ WriteHeader
        \/ Crash \/ PowerLoss

FileSpec == FileInit /\ [][FileNext]_fileVars

-----------------------------------------------------------------------------
\* The types of the variables.
FileTypeOK ==
    /\ bank \in Banks /\ dbank \in Banks
    /\ cells \in [Banks -> Content] /\ dcells \in [Banks -> Content]
    /\ pc \in {"idle", "syncBefore", "writeBank", "syncBetween", "writeHeader"}
    /\ target \in Banks
    /\ payload \in Payload \cup {Empty}
    /\ atomic \in BOOLEAN
    /\ current \subseteq Payload \cup {Empty, Garbage}
    /\ fallback \subseteq Payload \cup {Empty, Garbage}
    /\ written \in Payload \cup {Empty, Garbage}

Holds(p, b) == p = Garbage \/ \A i \in 1..p.size : cells[b][i] = p.name

\* A payload is all there or not at all: whatever crash or loss of power cut
\* write_payload() short, the current bank begins with a whole payload, the last
\* one or the one before, although every fsync comes too early for the bytes of
\* its own call (atomic_store.cpp:58-62, 110-117).  And only a loss of power takes
\* back a payload whose write_payload() returned: a process that dies in the next
\* call leaves it there.
OldOrNew ==
    /\ \E p \in current : Holds(p, bank)
    /\ Holds(written, bank)
=============================================================================
