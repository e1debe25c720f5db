---- MODULE FileSystem ----
(***************************************************************************)
(* File descriptors and the read-only file system of the operating system: *)
(* open, close and read of several processes, whose kernel code runs with  *)
(* interrupts on and is cut here wherever it reads or writes what another  *)
(* process, or a Ctrl+C, may change.  A byte of a file is named by the     *)
(* block of the inode it is in and its position there.                     *)
(***************************************************************************)
EXTENDS Naturals, Sequences, FiniteSets

CONSTANTS
    MAX_NUM_PROCESSES,
    file_size,          \* of each regular file: the length in its inode
    NBytes,             \* what programs pass as nbytes
    MAX_NUM_FILES, DATA_BLK_SIZE, num_dir_entries,
    None

ASSUME FileSystemAssumption ==
    /\ {MAX_NUM_PROCESSES, DATA_BLK_SIZE, num_dir_entries} \subseteq Nat \ {0}
    /\ MAX_NUM_FILES \in Nat /\ MAX_NUM_FILES > 2
    /\ NBytes \subseteq Nat     \* read_data()'s length is unsigned
    /\ None \notin Nat
    /\ \A name \in DOMAIN file_size : name # "." /\ file_size[name] \in Nat

Pids == 0 .. MAX_NUM_PROCESSES - 1
Files == DOMAIN file_size       \* names of regular files; "." is the directory
Fds == 2 .. MAX_NUM_FILES - 1   \* 0 and 1 are the terminal's

VARIABLES
    pids,               \* the entries in use
    fdt,                \* the file descriptor tables
    index_dir,          \* how often dir_read() was called, for all processes
    call,               \* where a process is in read(), and its locals
    \* history
    content,            \* what a program has read from a descriptor since open()
    listed,             \* the entries a program has read from the directory
    lister,             \* the program that is listing the directory
    fresh,              \* programs started since the last listing had ended
    orderly             \* FALSE once listings have overlapped, were cut short
                        \* or were started over

history == <<content, listed, lister, fresh, orderly>>
vars == <<pids, fdt, index_dir, call, history>>

Closed == [table |-> None, flags |-> 0, file_pos |-> 0, inode |-> None]
User == [at |-> "user"]

Init ==
    /\ pids = {}
    /\ fdt = [p \in Pids |-> [fd \in Fds |-> Closed]]
    /\ index_dir = 0
    /\ call = [p \in Pids |-> User]
    /\ content = [p \in Pids |-> [fd \in Fds |-> <<>>]]
    /\ listed = [p \in Pids |-> <<>>]
    /\ lister = None
    /\ fresh = {}
    /\ orderly = TRUE

---------------------------------------------------------------------------
(* Programs start and end *)

\* Mutant: a listing that read every entry is not started over.
ResetIndexDir_Late == IF index_dir > num_dir_entries THEN 0 ELSE index_dir
\* reset_index_dir
ResetIndexDir == IF index_dir >= num_dir_entries THEN 0 ELSE index_dir

\* get_available_pid(), while inUse are taken
IsAvailable(p, inUse) == p \notin inUse /\ 0 .. p - 1 \subseteq inUse

\* load_pcb() makes a blank file descriptor table, but for inode.
LoadPcb(p, table) ==
    [table EXCEPT ![p] = [fd \in Fds |-> [Closed EXCEPT !.inode = table[p][fd].inode]]]

\* History: a listing that has read every entry and has not been told so yet
\* is started over by execute().
StartsOver == lister # None /\ ResetIndexDir # index_dir

Execute(p) ==
    /\ IsAvailable(p, pids)
    /\ pids' = pids \cup {p}
    /\ fdt' = LoadPcb(p, fdt)
    /\ index_dir' = ResetIndexDir
    /\ fresh' = IF lister = None THEN fresh \cup {p} ELSE fresh \ {p}
    /\ orderly' = (orderly /\ ~StartsOver)
    /\ UNCHANGED <<call, content, listed, lister>>

\* The program in p is gone, wherever it was.
Forgets(p) ==
    /\ call' = [call EXCEPT ![p] = User]
    /\ content' = [content EXCEPT ![p] = [fd \in Fds |-> <<>>]]
    /\ listed' = [listed EXCEPT ![p] = <<>>]
    /\ lister' = IF lister = p THEN None ELSE lister

\* halt(), called by a program or by Ctrl+C, closes the files of a program that
\* has a parent, ...
Halt(p) ==
    /\ p \in pids
    /\ pids' = pids \ {p}
    /\ fdt' = [fdt EXCEPT ![p] = [fd \in Fds |->
                 IF fdt[p][fd].flags = 0 THEN fdt[p][fd] ELSE Closed]]
    /\ Forgets(p)
    /\ fresh' = fresh \ {p}
    /\ orderly' = (orderly /\ lister # p)
    /\ UNCHANGED index_dir

\* ... and frees those of a base shell, which it starts again, as q.
FreeFds(p) ==
    [fdt EXCEPT ![p] = [fd \in Fds |-> [fdt[p][fd] EXCEPT !.flags = 0, !.file_pos = 0]]]

RestartShell(p, q) ==
    /\ p \in pids /\ IsAvailable(q, pids \ {p})
    /\ pids' = (pids \ {p}) \cup {q}
    /\ fdt' = LoadPcb(q, FreeFds(p))
    /\ Forgets(p)
    /\ index_dir' = ResetIndexDir
    /\ fresh' = IF lister = None THEN (fresh \ {p}) \cup {q} ELSE fresh \ {p, q}
    /\ orderly' = (orderly /\ lister # p /\ ~StartsOver)

---------------------------------------------------------------------------
(* open and close *)

InUser(p) == p \in pids /\ call[p] = User

\* check_valid_fd
IsLowestFree(p, fd) ==
    /\ fdt[p][fd].flags = 0
    /\ \A lower \in Fds : lower < fd => fdt[p][lower].flags # 0

\* A directory leaves inode as it was.
OpenFd(p, fd, name) ==
    fdt' = [fdt EXCEPT ![p][fd] =
              [table |-> IF name = "." THEN "dir" ELSE "file", flags |-> 1, file_pos |-> 0,
               inode |-> IF name = "." THEN fdt[p][fd].inode ELSE name]]

Open(p, name) ==
    /\ InUser(p)
    /\ \E fd \in Fds :
          /\ IsLowestFree(p, fd)
          /\ OpenFd(p, fd, name)
          /\ content' = [content EXCEPT ![p][fd] = <<>>]
    /\ UNCHANGED <<pids, index_dir, call, listed, lister, fresh, orderly>>

Close(p, fd) ==
    /\ InUser(p) /\ fdt[p][fd].flags # 0
    /\ fdt' = [fdt EXCEPT ![p][fd] = Closed]
    /\ content' = [content EXCEPT ![p][fd] = <<>>]
    /\ UNCHANGED <<pids, index_dir, call, listed, lister, fresh, orderly>>

---------------------------------------------------------------------------
(* file_read *)

\* Mutant: the byte after the last is read too.
AtEnd_Late(at, size) == at.pos + DATA_BLK_SIZE * at.block > size
\* Where a byte is: read_data()'s data_block_idx and pos.
AtEnd(at, size) == at.pos + DATA_BLK_SIZE * at.block >= size

\* Mutant: the next block is turned to one byte late.
IntoBlock_Late(at) ==
    IF at.pos > DATA_BLK_SIZE THEN [block |-> at.block + 1, pos |-> 0] ELSE at
IntoBlock(at) ==
    IF at.pos >= DATA_BLK_SIZE THEN [block |-> at.block + 1, pos |-> 0] ELSE at

\* The bytes read from offset on, each the block and the position it is at.
ReadData(size, offset, length) ==
    LET start == [block |-> offset \div DATA_BLK_SIZE, pos |-> offset % DATA_BLK_SIZE]
        loop[n \in 0 .. length] ==
          IF n = 0 THEN [at |-> start, buf |-> <<>>]
          ELSE LET prev == loop[n - 1]
                   at == IntoBlock(prev.at)
               IN  IF AtEnd(prev.at, size) THEN prev
                   ELSE [at |-> [at EXCEPT !.pos = @ + 1],
                         buf |-> Append(prev.buf, <<at.block, at.pos>>)]
    IN  loop[length].buf

FileRead(p, fd, nbytes) ==
    /\ InUser(p) /\ fdt[p][fd].flags # 0 /\ fdt[p][fd].table = "file"
    /\ call' = [call EXCEPT ![p] =
                  [at |-> "read_data", fd |-> fd,
                   buf |-> ReadData(file_size[fdt[p][fd].inode], fdt[p][fd].file_pos, nbytes)]]
    /\ UNCHANGED <<pids, fdt, index_dir, history>>

\* file_pos += bytes_read, and the program has its bytes.
FileReadReturns(p) ==
    /\ p \in pids /\ call[p].at = "read_data"
    /\ fdt' = [fdt EXCEPT ![p][call[p].fd].file_pos = @ + Len(call[p].buf)]
    /\ content' = [content EXCEPT ![p][call[p].fd] = @ \o call[p].buf]
    /\ call' = [call EXCEPT ![p] = User]
    /\ UNCHANGED <<pids, index_dir, listed, lister, fresh, orderly>>

---------------------------------------------------------------------------
(* dir_read *)

EndOfDirectory == index_dir >= num_dir_entries

\* History: p's dir_read is part of the one listing that is under way, or
\* begins a listing, as a program started after the last one had ended.
Lists(p) ==
    /\ orderly' = (orderly /\ (lister = p \/ (lister = None /\ p \in fresh)))
    /\ lister' = p

\* The end of the directory is tested, ...
DirRead(p, fd) ==
    /\ InUser(p) /\ fdt[p][fd].flags # 0 /\ fdt[p][fd].table = "dir"
    /\ Lists(p)
    /\ call' = [call EXCEPT ![p] = [at |-> IF EndOfDirectory THEN "end" ELSE "dentry"]]
    /\ UNCHANGED <<pids, fdt, index_dir, content, listed, fresh>>

\* ... 0 is returned there, ...
DirReadEnds(p) ==
    /\ p \in pids /\ call[p].at = "end"
    /\ call' = [call EXCEPT ![p] = User]
    /\ lister' = IF lister = p THEN None ELSE lister
    /\ fresh' = {}
    /\ listed' = [listed EXCEPT ![p] = <<>>]
    /\ UNCHANGED <<pids, fdt, index_dir, content, orderly>>

\* ... read_dentry_by_index() tests the index again and copies the name, ...
ReadDentryByIndex(p) ==
    /\ p \in pids /\ call[p].at = "dentry"
    /\ call' = [call EXCEPT ![p] = [at |-> "increment",
                  name |-> IF index_dir < num_dir_entries THEN index_dir ELSE None]]
    /\ UNCHANGED <<pids, fdt, index_dir, history>>

\* ... and index_dir++ loads ...
LoadIndexDir(p) ==
    /\ p \in pids /\ call[p].at = "increment"
    /\ call' = [call EXCEPT ![p] = [at |-> "store", name |-> @.name, eax |-> index_dir]]
    /\ UNCHANGED <<pids, fdt, index_dir, history>>

\* ... and stores it before the name is returned.
DirReadReturns(p) ==
    /\ p \in pids /\ call[p].at = "store"
    /\ index_dir' = call[p].eax + 1
    /\ listed' = [listed EXCEPT ![p] = IF call[p].name = None THEN @
                                       ELSE Append(@, call[p].name)]
    /\ call' = [call EXCEPT ![p] = User]
    /\ UNCHANGED <<pids, fdt, content, lister, fresh, orderly>>

---------------------------------------------------------------------------
Next ==
    \E p \in Pids :
        \/ Execute(p) \/ Halt(p)
        \/ \E q \in Pids : RestartShell(p, q)
        \/ \E name \in Files \cup {"."} : Open(p, name)
        \/ \E fd \in Fds : Close(p, fd) \/ DirRead(p, fd)
        \/ \E fd \in Fds, nbytes \in NBytes : FileRead(p, fd, nbytes)
        \/ FileReadReturns(p)
        \/ DirReadEnds(p) \/ ReadDentryByIndex(p) \/ LoadIndexDir(p) \/ DirReadReturns(p)

Spec == Init /\ [][Next]_vars

---------------------------------------------------------------------------
(* Properties *)

Positions == {0} \cup UNION {0 .. file_size[name] : name \in Files}

\* Every value is in range; in particular no descriptor is ever past the end of
\* the longest file.  index_dir has no bound: a dir_read() that tested it before
\* execute() set it back, or before another one counted, counts from where it
\* finds it, so that it passes the end of the directory and the comment below
\* the increment, "Should reach here only if index is -ve", is not so.
TypeOK ==
    /\ pids \subseteq Pids /\ fresh \subseteq pids
    /\ fdt \in [Pids -> [Fds -> [table : {"file", "dir", None}, flags : {0, 1},
                                 file_pos : Positions, inode : Files \cup {None}]]]
    /\ index_dir \in Nat
    /\ \A p \in Pids : call[p].at \in {"user", "read_data", "end", "dentry", "increment", "store"}
    /\ lister \in pids \cup {None}

\* A program that reads a regular file gets the bytes of that file from the
\* first on, none twice and none left out, whatever sizes it reads in, whatever
\* was open in its process table entry before it, and whatever other programs
\* open, read, close or are killed at meanwhile; and file_pos counts them.
StreamIntact ==
    \A p \in pids, fd \in Fds :
        LET f == fdt[p][fd]
            got == content[p][fd]
        IN  f.flags = 1 /\ f.table = "file" =>
              /\ f.file_pos = Len(got)
              /\ Len(got) <= file_size[f.inode]
              /\ \A i \in 1 .. Len(got) :
                    got[i] = <<(i - 1) \div DATA_BLK_SIZE, (i - 1) % DATA_BLK_SIZE>>

\* As long as the directory is listed by one program at a time, each started
\* after the listing before had ended, and no listing is killed before its end
\* nor started over by execute(), a program that is told that the directory has ended has read every
\* entry of it once, in order.  (index_dir belongs to all of them, and is set
\* back only when a program starts.)
ListingComplete ==
    \A p \in Pids : call[p].at = "end" /\ orderly =>
        listed[p] = [i \in 1 .. num_dir_entries |-> i - 1]
====
