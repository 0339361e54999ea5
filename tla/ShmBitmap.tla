------------------------------ MODULE ShmBitmap -------------------------------
(***************************************************************************)
(* Shm_Bitmap_Manager: one bit for each uin in a segment of shared memory, *)
(* eight to a byte, that processes open by its key, and create when there  *)
(* is none.  Nothing locks it: a bit is changed by a read and a write of   *)
(* its byte, and the process that creates the segment clears it later.     *)
(*                                                                         *)
(* A segment holds the set of the uins whose bit is 1.  max_uin is a       *)
(* multiple of the bits of a byte: open rounds the size down, so that the  *)
(* uins of a last, incomplete byte would lie behind the segment.           *)
(***************************************************************************)
EXTENDS Integers

CONSTANTS
    BmProcs,    \* processes
    BmMaxUin,   \* the max_uin each of them opens the segment with
    BmByte      \* bits of a byte

ASSUME BmAssumption ==
    /\ BmByte \in Nat \ {0}
    /\ BmMaxUin \in [BmProcs -> Nat]
    /\ \A p \in BmProcs : BmMaxUin[p] % BmByte = 0

VARIABLES
    bmSize,     \* uins the segment has bits for; 0: there is none
    bmBits,     \* the uins whose bit is 1
    bmAt,       \* where each process is
    bmUin,      \* uin of handle_shm_bit_i
    bmFlag,     \* its flag
    bmRead,     \* uin_byte
    bmWant,     \* history: the bits as the last store for each uin made them
    bmClash     \* history: bytes in which one store undid another

bmVars == <<bmSize, bmBits, bmAt, bmUin, bmFlag, bmRead, bmWant, bmClash>>

BmUins == UNION {0 .. BmMaxUin[p] - 1 : p \in BmProcs}
BmByteOf(u) == u \div BmByte
BmShare(u) == {v \in BmUins : BmByteOf(v) = BmByteOf(u)}
BmPlaces == {"closed", "create", "clear", "failed", "idle", "store", "reread"}

BmInit ==
    /\ bmSize = 0
    /\ bmBits = {}
    /\ bmAt = [p \in BmProcs |-> "closed"]
    /\ bmUin = [p \in BmProcs |-> 0]
    /\ bmFlag = [p \in BmProcs |-> "chk"]
    /\ bmRead = [p \in BmProcs |-> {}]
    /\ bmWant = {}
    /\ bmClash = {}

BmGoto(p, place) == bmAt' = [bmAt EXCEPT ![p] = place]
BmNoChange == UNCHANGED <<bmUin, bmFlag, bmRead, bmWant>>

-----------------------------------------------------------------------------
(* open: the segment is looked for, created if there was none, attached.   *)
(* A larger one than there is cannot be had.                               *)
BmOpen(p) ==
    /\ bmAt[p] = "closed"
    /\ BmGoto(p, IF bmSize = 0 THEN "create"
                 ELSE IF BmMaxUin[p] > bmSize THEN "failed" ELSE "idle")
    /\ UNCHANGED <<bmSize, bmBits, bmClash>>
    /\ BmNoChange

(* Another process may have created it since.                              *)
BmCreate(p) ==
    /\ bmAt[p] = "create"
    /\ bmSize' = IF bmSize = 0 THEN BmMaxUin[p] ELSE bmSize
    /\ BmGoto(p, IF BmMaxUin[p] > bmSize' THEN "failed" ELSE "clear")
    /\ UNCHANGED <<bmBits, bmClash>>
    /\ BmNoChange

(* memset after the attachment.                                            *)
BmClear(p) ==
    LET gone == {u \in bmBits : u < BmMaxUin[p]}
    IN  /\ bmAt[p] = "clear"
        /\ bmBits' = bmBits \ gone
        /\ bmClash' = bmClash \cup {BmByteOf(u) : u \in gone}
        /\ BmGoto(p, "idle")
        /\ UNCHANGED bmSize
        /\ BmNoChange

(* close, or the end of the process, at any place.                         *)
BmClose(p) ==
    /\ bmAt[p] # "closed"
    /\ BmGoto(p, "closed")
    /\ bmRead' = [bmRead EXCEPT ![p] = {}]
    /\ bmFlag' = [bmFlag EXCEPT ![p] = "chk"]
    /\ bmUin' = [bmUin EXCEPT ![p] = 0]
    /\ UNCHANGED <<bmSize, bmBits, bmWant, bmClash>>

-----------------------------------------------------------------------------
(* handle_shm_bit_i.  A uin from max_uin_ on, or a segment that could not  *)
(* be opened, is answered at once and nothing changes.                     *)

BmBegin(p, flag) ==
    \E u \in 0 .. BmMaxUin[p] - 1 :
       /\ bmAt[p] = "idle"
       /\ bmUin' = [bmUin EXCEPT ![p] = u]
       /\ bmFlag' = [bmFlag EXCEPT ![p] = flag]
       /\ bmRead' = [bmRead EXCEPT ![p] = bmBits \cap BmShare(u)]
       /\ UNCHANGED <<bmSize, bmBits, bmWant, bmClash>>

(* get_bit reads the byte twice.                                           *)
BmGetBit(p) == BmBegin(p, "chk") /\ BmGoto(p, "reread")

(* set_bit and clr_bit read it, write it, and read it for their answer.    *)
BmSetBit(p) == BmBegin(p, "set") /\ BmGoto(p, "store")
BmClrBit(p) == BmBegin(p, "clr") /\ BmGoto(p, "store")

(* The byte with the bit changed.                                          *)
BmOnlyBit(p) ==    \* mutant: the other bits of the byte are not kept
    IF bmFlag[p] = "set" THEN {bmUin[p]} ELSE bmRead[p] \ {bmUin[p]}

BmChanged(p) ==
    IF bmFlag[p] = "set" THEN bmRead[p] \cup {bmUin[p]} ELSE bmRead[p] \ {bmUin[p]}

BmStore(p) ==
    LET u == bmUin[p]
        now == bmBits \cap BmShare(u)
    IN  /\ bmAt[p] = "store"
        /\ bmBits' = (bmBits \ BmShare(u)) \cup BmChanged(p)
        /\ bmWant' = IF bmFlag[p] = "set" THEN bmWant \cup {u} ELSE bmWant \ {u}
        /\ bmClash' = IF now = bmRead[p] THEN bmClash
                      ELSE bmClash \cup {BmByteOf(u)}
        /\ BmGoto(p, "reread")
        /\ UNCHANGED <<bmSize, bmUin, bmFlag, bmRead>>

(* The answer is the bit as it is by now.                                  *)
BmReread(p) ==
    /\ bmAt[p] = "reread"
    /\ BmGoto(p, "idle")
    /\ bmRead' = [bmRead EXCEPT ![p] = {}]
    /\ bmFlag' = [bmFlag EXCEPT ![p] = "chk"]
    /\ bmUin' = [bmUin EXCEPT ![p] = 0]
    /\ UNCHANGED <<bmSize, bmBits, bmWant, bmClash>>

BmNext ==
    \E p \in BmProcs :
       \/ BmOpen(p)
       \/ BmCreate(p)
       \/ BmClear(p)
       \/ BmClose(p)
       \/ BmGetBit(p)
       \/ BmSetBit(p)
       \/ BmClrBit(p)
       \/ BmStore(p)
       \/ BmReread(p)

BmSpec == BmInit /\ [][BmNext]_bmVars

-----------------------------------------------------------------------------
BmTypeOK ==
    /\ bmSize \in {0} \cup {BmMaxUin[p] : p \in BmProcs}
    /\ bmBits \subseteq BmUins
    /\ bmAt \in [BmProcs -> BmPlaces]
    /\ bmUin \in [BmProcs -> {0} \cup BmUins]
    /\ bmFlag \in [BmProcs -> {"chk", "set", "clr"}]
    /\ bmRead \in [BmProcs -> SUBSET BmUins]
    /\ bmWant \subseteq BmUins
    /\ bmClash \subseteq {BmByteOf(u) : u \in BmUins}

(* A bit is what the last set_bit or clr_bit for its uin made it, and the  *)
(* calls for the other uins of its byte leave it alone, unless two writers *)
(* of the byte overlapped (shm_bitmap_manager.cpp:225-242) or a process    *)
(* that found no segment cleared the one another had created               *)
(* (shm_bitmap_manager.cpp:104-133).  The bits survive their writers.      *)
BmKept ==
    \A u \in BmUins : BmByteOf(u) \notin bmClash => (u \in bmBits <=> u \in bmWant)
===============================================================================
