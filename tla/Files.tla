--------------------------------- MODULE Files ---------------------------------
(***************************************************************************)
(* Service 6, memory management (components/services/src/pus6.c): TC(6,1)  *)
(* loads blocks of data into a file, TC(6,3) dumps sections of one.  Each  *)
(* block is a seek and an access, and the first that fails ends the loop.  *)
(* The file system is not in the repository: any of its calls may fail, a  *)
(* close included, whose result is not looked at, and a write that fails   *)
(* may have written some of its data.                                      *)
(* Sizes are counted in cells: a block header takes one, and so does each  *)
(* datum.  The lengths that a block declares are of 32 bits, and so are    *)
(* the sums the bounds are checked with.                                   *)
(***************************************************************************)
EXTENDS Naturals, Sequences

CONSTANTS
    File, NoFile,    \* load_base and dump_base
    FileSize,        \* cells of a file
    Value,           \* what a cell may hold, with 0 before any load
    FileTCs,         \* the TCs of the ground: subservice, base, blocks (as
                     \* many as N says; data as long as the length declared,
                     \* in a section to dump and beyond the TC as well)
    TC_MAX, LOAD_MAX, TM_MAX,  \* cells of a TC, of a block, of a TM(6,4)
    Word                       \* the values of a uint32_t

Cell == 1..FileSize

Block == [offset : Nat, data : Seq(Value)]

ASSUME FilesAssumption ==
    /\ NoFile \notin File /\ FileSize \in Nat /\ 0 \in Value
    /\ {TC_MAX, LOAD_MAX, TM_MAX} \subseteq Nat /\ Word \in Nat \ {0}
    /\ FileTCs \subseteq [subservice : {1, 3}, base : File, blocks : Seq(Block)]

VARIABLES
    file,      \* the files, which survive a restart
    opened,    \* the files that have a device open, temp_dev or one left
    notClosed, \* auxiliary: those whose DeviceClose has failed
    files,     \* the handler: pc, request, block i, offset (in the TC, or
               \* dumped_data_size), error_code, dumped_data
    loaded     \* auxiliary: the values each cell may hold for who knows the
               \* requests and their answers only

fileVars == <<file, opened, notClosed, files, loaded>>

NoFileTC  == [subservice |-> 0, base |-> NoFile, blocks |-> <<>>]
FilesIdle == [pc |-> "idle", request |-> NoFileTC, i |-> 0, offset |-> 0,
              error |-> "NO_ERROR", dumped |-> <<>>]

FilesInit ==
    /\ file = [f \in File |-> [c \in Cell |-> 0]]
    /\ opened = {} /\ notClosed = {} /\ files = FilesIdle
    /\ loaded = [f \in File |-> [c \in Cell |-> {0}]]

FilesAt(pc)   == files.pc = pc
FilesFail(e)  == files' = [files EXCEPT !.pc = "close", !.error = e]
BlockOf       == files.request.blocks[files.i]
Loading       == files.request.subservice = 1

(* The cells of a block, and a file once its first n data are written. *)
Covered(b)        == {c \in Cell : c > b.offset /\ c <= b.offset + Len(b.data)}
Written(f, b, n)  == [c \in Cell |-> IF c \in Covered(b) /\ c <= b.offset + n
                                     THEN b.data[c - b.offset] ELSE f[c]]
Exists(b)         == b.offset + Len(b.data) <= FileSize

-----------------------------------------------------------------------------

(* The base and N are read, and the file is opened. *)
ExecuteS6(r) ==
    /\ FilesAt("idle")
    /\ \/ /\ opened' = opened \union {r.base}
          /\ files' = [FilesIdle EXCEPT !.pc = "block", !.request = r, !.i = 1]
       \/ /\ files' = [FilesIdle EXCEPT !.pc = "answer", !.request = r, !.error = "FAILED"]
          /\ UNCHANGED opened
    /\ UNCHANGED <<file, notClosed, loaded>>

(* Mutant: the bound of the whole TC, or TM, is not looked at. *)
FitsAlone(b) == 1 + Len(b.data) <= LOAD_MAX

Sum32(m, n) == (m + n) % Word

(* TC(6,1) looks at the header, then at the block and at its place in the  *)
(* TC; TC(6,3) at the room of the TM before and after the header.          *)
Fits(b) ==
    IF Loading THEN /\ files.offset + 1 < TC_MAX
                    /\ Sum32(1, Len(b.data)) <= LOAD_MAX
                    /\ Sum32(files.offset, Sum32(1, Len(b.data))) <= TC_MAX
               ELSE /\ files.offset + 1 <= TM_MAX
                    /\ Sum32(files.offset + 1, Len(b.data)) <= TM_MAX

(* What the checks are for: the block is where the handler may read and    *)
(* write, in its TC and in its local array, or in its TM.                  *)
RoomFor   == IF Loading THEN TC_MAX ELSE TM_MAX
Inside(b) == /\ files.offset + 1 + Len(b.data) <= RoomFor
             /\ Loading => 1 + Len(b.data) <= LOAD_MAX

NoMoreBlocks == files.i > Len(files.request.blocks)

EndOfBlocks ==
    /\ FilesAt("block") /\ NoMoreBlocks
    /\ files' = [files EXCEPT !.pc = "close"]
    /\ UNCHANGED <<file, opened, notClosed, loaded>>

RefuseBlock ==
    /\ FilesAt("block") /\ ~ NoMoreBlocks /\ ~ Fits(BlockOf)
    /\ FilesFail("UNEXPECTED_DATA")
    /\ UNCHANGED <<file, opened, notClosed, loaded>>

(* TC(6,1) has copied its block from the TC. *)
Seek ==
    /\ FilesAt("block") /\ ~ NoMoreBlocks /\ Fits(BlockOf)
    /\ Loading => Inside(BlockOf)
    /\ files' = [files EXCEPT !.pc = "access"] \/ FilesFail("FAILED")
    /\ UNCHANGED <<file, opened, notClosed, loaded>>

(* The checks have let through a length that the sums do not hold: the     *)
(* memcpy of TC(6,1) or the DeviceRead of TC(6,3) runs out of the TC or of *)
(* the local array.  What it does there is undefined: the handler never    *)
(* comes back, until a restart.                                            *)
Overrun ==
    /\ IF Loading THEN FilesAt("block") ELSE FilesAt("access")
    /\ ~ NoMoreBlocks /\ Fits(BlockOf) /\ ~ Inside(BlockOf)
    /\ files' = [files EXCEPT !.pc = "outside"]
    /\ UNCHANGED <<file, opened, notClosed, loaded>>

NextBlock(dumped) ==
    files' = [files EXCEPT !.pc = "block", !.i = @ + 1, !.dumped = dumped,
                           !.offset = @ + 1 + Len(BlockOf.data)]

(* Mutant: the data of every block are taken from the first one. *)
FirstData(b) == [b EXCEPT !.data = [n \in DOMAIN b.data |->
                    IF n \in DOMAIN files.request.blocks[1].data
                    THEN files.request.blocks[1].data[n] ELSE 0]]

ToWrite(b) == b

WriteBlock ==
    /\ FilesAt("access") /\ Loading
    /\ \/ /\ Exists(BlockOf)
          /\ file' = [file EXCEPT ![files.request.base] =
                        Written(@, ToWrite(BlockOf), Len(BlockOf.data))]
          /\ NextBlock(<<>>)
       \/ \E n \in 0..Len(BlockOf.data) :
            /\ file' = [file EXCEPT ![files.request.base] =
                          Written(@, ToWrite(BlockOf), n)]
            /\ FilesFail("FAILED")
    /\ UNCHANGED <<opened, notClosed, loaded>>

(* Mutant: the read starts one cell too far. *)
SectionAfter(b) ==
    [n \in DOMAIN b.data |-> file[files.request.base][((b.offset + n) % FileSize) + 1]]

Section(b) == [n \in DOMAIN b.data |-> file[files.request.base][b.offset + n]]

ReadSection ==
    /\ FilesAt("access") /\ ~ Loading
    /\ \/ /\ Inside(BlockOf) /\ Exists(BlockOf)
          /\ NextBlock(Append(files.dumped, Section(BlockOf)))
       \/ FilesFail("FAILED")
    /\ UNCHANGED <<file, opened, notClosed, loaded>>

(* Mutant: the device is not closed when a block has failed. *)
OpenAfterFailure ==
    IF files.error = "NO_ERROR" THEN opened \ ({files.request.base} \ notClosed) ELSE opened

(* A device that a former request has left open on this file stays. *)
OpenAfterClose == opened \ ({files.request.base} \ notClosed)

(* TM(6,4) is built before the device is closed, if nothing failed; the    *)
(* result of DeviceClose is not looked at.                                 *)
Close ==
    /\ FilesAt("close")
    /\ \/ opened' = OpenAfterClose /\ UNCHANGED notClosed
       \/ notClosed' = notClosed \union {files.request.base} /\ UNCHANGED opened
    /\ files' = [files EXCEPT !.pc = "answer"]
    /\ UNCHANGED <<file, loaded>>

(* What the ground learns from an answer: all that was asked, or only that *)
(* some of it may have been done.                                          *)
LastTo(r, c) ==
    LET to == {n \in DOMAIN r.blocks : c \in Covered(r.blocks[n])}
    IN r.blocks[CHOOSE n \in to : \A m \in to : m <= n]
MayHold(r, c) ==
    UNION {IF c \in Covered(r.blocks[n])
             THEN {r.blocks[n].data[c - r.blocks[n].offset]} ELSE {}
           : n \in DOMAIN r.blocks}

Learn(ok) ==
    LET r == files.request
    IN IF r.subservice # 1 THEN UNCHANGED loaded
       ELSE loaded' = [loaded EXCEPT ![r.base] = [c \in Cell |->
              IF MayHold(r, c) = {} THEN @[c]
              ELSE IF ok THEN {LastTo(r, c).data[c - LastTo(r, c).offset]}
              ELSE @[c] \union MayHold(r, c)]]

FilesReturn ==
    /\ FilesAt("answer")
    /\ files' = FilesIdle
    /\ Learn(files.error = "NO_ERROR")
    /\ UNCHANGED <<file, opened, notClosed>>

(* A restart of the software forgets the handler and the open devices. *)
FilesRestart ==
    /\ opened' = {} /\ notClosed' = {} /\ files' = FilesIdle
    /\ Learn(FALSE)
    /\ UNCHANGED file

FilesNext ==
    \/ \E r \in FileTCs : ExecuteS6(r)
    \/ EndOfBlocks \/ RefuseBlock \/ Seek \/ Overrun \/ WriteBlock \/ ReadSection
    \/ Close \/ FilesReturn

-----------------------------------------------------------------------------

(* The variables keep their types, and the bounds that the handlers check  *)
(* keep them within their TC, their array and their TM for every length    *)
(* but those whose sum with what comes before reaches 2^32: the wrapped    *)
(* sums let such a length through.                                         *)
FilesTypeOK ==
    /\ file \in [File -> [Cell -> Value]]
    /\ opened \subseteq File /\ notClosed \subseteq File
    /\ files.i \in 0..(Len(files.request.blocks) + 1)
    /\ files.offset \in 0..RoomFor
    /\ files.pc = "outside" => files.offset + 1 + Len(BlockOf.data) >= Word

(* With the requests and their answers alone one knows what the files may  *)
(* hold: a load answered as executed is in its file, each cell with the    *)
(* last of the data sent for it, through any restart, failed load or dump, *)
(* until another load writes there.                                        *)
FilesAsLoaded ==
    files.pc = "idle" =>
      \A f \in File, c \in Cell : file[f][c] \in loaded[f][c]

(* A dump that succeeds holds what the sections asked for hold, in order.  *)
DumpFaithful ==
    files.pc = "answer" /\ files.request.subservice = 3 /\ files.error = "NO_ERROR" =>
      files.dumped = [n \in DOMAIN files.request.blocks |->
                        LET b == files.request.blocks[n]
                        IN [k \in DOMAIN b.data |-> file[files.request.base][b.offset + k]]]

(* Every path through the handlers tries to close the device it has       *)
(* opened: once a request is answered its file is blocked only by a        *)
(* DeviceClose that failed, then or before, which no answer tells.         *)
DevicesClosed ==
    opened = notClosed \union (IF files.pc \in {"idle", "answer"} THEN {}
                               ELSE {files.request.base})
=============================================================================
