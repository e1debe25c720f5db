---- MODULE Commands ----
(***************************************************************************)
(* From a line typed at the shell to what a program prints: the shell,     *)
(* execute() as far as the command, its file and its image go, getargs(),  *)
(* the programs cat, grep and ls, and of the others how they end, a shell  *)
(* started by a shell among them.  The terminal's line is TerminalInput's; *)
(* processes are Scheduler's; that a read gives the next bytes of a file,  *)
(* and a listing its entries, is shown in FileSystem, which also has what  *)
(* a Ctrl+C in the middle of a listing leaves behind: here Ctrl+C meets a  *)
(* shell that reads its line, or a program that waits.                     *)
(***************************************************************************)
EXTENDS Integers, Sequences, SequencesExt

CONSTANTS
    COMMAND_NAME_SZ, COMMAND_ARG_SZ, NAME_SIZE,
    HALF_KB,                \* what copy_program loads at a time
    BUFSIZE,                \* of cat and grep
    LINE_SZ,                \* the longest line of the terminal
    TypedLines,             \* lines without their newline
    Exit,                   \* the line "exit"
    Directory,              \* entries: name, filetype and the program there
    Executable,             \* what is in the file of a program
    Texts,                  \* what may be in the others
    Shells                  \* bound: shells within the first, for which there are processes

CommandsConstants ==
    /\ {COMMAND_NAME_SZ, COMMAND_ARG_SZ, NAME_SIZE, HALF_KB, BUFSIZE, LINE_SZ} \subseteq Nat \ {0}
    /\ Shells \in Nat
    /\ NAME_SIZE < COMMAND_ARG_SZ
    /\ \A typed \in TypedLines : typed \in Seq(Range(typed) \ {"nul"}) /\ Len(typed) <= LINE_SZ
    /\ Executable \in Seq(Range(Executable))
    \* as in the file system's image
    /\ Directory \in Seq(Range(Directory))
    /\ \A i \in DOMAIN Directory :
          /\ Directory[i].name \in Seq(Range(Directory[i].name)) /\ Len(Directory[i].name) <= NAME_SIZE
          /\ \A j \in DOMAIN Directory : Directory[j].name = Directory[i].name => j = i
          /\ Directory[i].program # "none" =>
                /\ Directory[i].filetype = 2
                /\ Len(Directory[i].name) \in 1 .. COMMAND_NAME_SZ - 1
    /\ \A text \in Texts :
          /\ text \in Seq(Range(text) \ {"nul"})
          /\ text = <<>> \/ text[1] # Executable[1]
ASSUME CommandsAssumption == CommandsConstants

VARIABLES
    pc,
    line,                   \* history: the line typed last
    buf,                    \* the shell's, which it does not clear
    outer,                  \* the shells it was started from: line and buf of each
    layout,                 \* how the compiler placed execute's arrays
    rval,                   \* what execute() returns
    file,                   \* an index of Directory
    arguments, image,       \* of the process: its PCB's, its page
    pos, content,           \* of the file that is open
    dir,                    \* index_dir
    data, last, line_start, cnt,    \* grep's
    leftover,               \* what is on a new stack
    out                     \* printed, since a file was opened

shell == <<line, buf, outer, layout, rval>>
process == <<file, arguments, image>>
grep == <<data, last, line_start, cnt, leftover>>
commands_vars == <<pc, shell, process, pos, content, dir, grep, out>>

---------------------------------------------------------------------------
(* Strings: an array is a sequence, a string the part before a "nul". *)

ToNul(array) ==
    LET end == CHOOSE e \in DOMAIN array : array[e] = "nul" /\ \A k \in 1 .. e - 1 : array[k] # "nul"
    IN  SubSeq(array, 1, end - 1)

\* Writes a string and its "nul" after the first base bytes.
Strcpy(array, base, string) ==
    [i \in DOMAIN array |->
        IF i - base \in 1 .. Len(string) THEN string[i - base]
        ELSE IF i = base + Len(string) + 1 THEN "nul" ELSE array[i]]

\* How many of an array's bytes from base on come before one of stops, limit at most.
Span(array, base, stops, limit) ==
    CHOOSE n \in 0 .. limit :
        /\ n = limit \/ array[base + n + 1] \in stops
        /\ \A k \in 1 .. n : array[base + k] \notin stops

Fill(byte, size) == [i \in 1 .. size |-> byte]

---------------------------------------------------------------------------
(* parse_command *)

\* execute's two arrays; where a "nul" goes that is written behind the end of
\* one is up to the compiler.
NameAt == IF layout = "args_first" THEN COMMAND_ARG_SZ ELSE 0
ArgsAt ==
    CASE layout = "apart" -> COMMAND_NAME_SZ + 1
      [] layout = "name_first" -> COMMAND_NAME_SZ
      [] OTHER -> 0
Frame == Fill("junk", COMMAND_NAME_SZ + COMMAND_ARG_SZ + 2)

NameLimit == COMMAND_NAME_SZ

\* Where the first word that begins behind the first name bytes and one more does.
ArgsStart(command, name) ==
    CHOOSE n \in name + 1 .. Len(command) - 1 :
        command[n + 1] # "sp" /\ \A k \in name + 2 .. n : command[k] = "sp"

ParseCommand(command) ==
    LET name == Span(command, 0, {"sp", "nul"}, NameLimit)
        none == name < NameLimit /\ command[name + 1] = "nul"
        from == ArgsStart(command, name)
        args == IF none THEN 0 ELSE Span(command, from, {"sp", "nul"}, COMMAND_ARG_SZ)
    IN  Strcpy(Strcpy(Frame, NameAt, SubSeq(command, 1, name)),
               ArgsAt, SubSeq(command, from + 1, from + args))

StringAt(frame, base) == ToNul(SubSeq(frame, base + 1, Len(frame)))

---------------------------------------------------------------------------
(* read_dentry_by_name *)

\* Mutant: the length of the entry's name is not compared.
SameName_Prefix(entry, fname) ==
    Len(fname) <= NAME_SIZE /\ IsPrefix(fname, entry)
\* stringlength and strncmp; a free entry has an empty name.
SameName(entry, fname) == Len(fname) <= NAME_SIZE /\ entry = fname

Matches(fname) == {i \in DOMAIN Directory : SameName(Directory[i].name, fname)}
FirstMatch(fname) == CHOOSE i \in Matches(fname) : \A j \in Matches(fname) : i <= j

ContentsOf(i) ==
    IF Directory[i].filetype # 2 THEN {<<>>}
    ELSE IF Directory[i].program = "none" THEN Texts ELSE {Executable}

---------------------------------------------------------------------------
(* The shell *)

CommandsInit ==
    /\ pc = "prompt" /\ line = <<>> /\ outer = <<>> /\ rval = 0
    /\ buf = Fill("junk", LINE_SZ + 2)
    /\ layout \in {"apart", "name_first", "args_first"}
    /\ file = 0 /\ arguments = <<>> /\ image = <<>>
    /\ pos = 0 /\ content = <<>> /\ dir = 0 /\ out = <<>>
    /\ data = <<>> /\ last = 0 /\ line_start = 0 /\ cnt = 0
    /\ leftover = "junk"

\* reset_index_dir, in execute()
FromTheStart(index) == IF index >= Len(Directory) THEN 0 ELSE index

\* The shell returns, or is halted: back to the one it was started from; where a
\* terminal's first one was, there is a new one.
ShellEnds ==
    IF outer = <<>>
    THEN /\ pc' = "prompt" /\ line' = <<>> /\ buf' = Fill("junk", LINE_SZ + 2)
         /\ dir' = FromTheStart(dir)
         /\ UNCHANGED <<outer, rval>>
    ELSE /\ pc' = "halted" /\ rval' = 0
         /\ line' = outer[Len(outer)].line /\ buf' = outer[Len(outer)].buf
         /\ outer' = SubSeq(outer, 1, Len(outer) - 1)
         /\ UNCHANGED dir

\* The terminal's newline and "nul" follow the line; the first becomes a "nul".
ReadLine ==
    /\ pc = "prompt"
    /\ \E typed \in TypedLines :
          IF typed = Exit THEN ShellEnds
          ELSE /\ line' = typed
               /\ buf' = [Strcpy(buf, 0, typed) EXCEPT ![Len(typed) + 2] = "nul"]
               /\ pc' = IF typed = <<>> THEN "prompt" ELSE "execute"
               /\ UNCHANGED <<outer, rval, dir>>
    /\ UNCHANGED <<layout, process, pos, content, grep, out>>

---------------------------------------------------------------------------
(* execute() *)

Fails(status) == pc' = "answer" /\ rval' = status /\ UNCHANGED <<process, pos, content, dir, out>>

Execute ==
    LET frame == ParseCommand(buf)
        name == StringAt(frame, NameAt)
        found == Matches(name) # {}
        i == FirstMatch(name)
        isProgram == found /\ Directory[i].filetype = 2 /\ Directory[i].program # "none"
        fits == Directory[i].program = "shell" => Len(outer) < Shells  \* bound
    IN  /\ pc = "execute"
        /\ \/ Fails(2)             \* the process table may be full
           \/ ~isProgram /\ Fails(-1)
           \/ /\ isProgram /\ fits
              /\ pc' = "copy_program"
              /\ file' = i /\ content' = Executable
              /\ arguments' = StringAt(frame, ArgsAt)
              /\ dir' = FromTheStart(dir)
              /\ UNCHANGED <<rval, image, pos, out>>
        /\ UNCHANGED <<line, buf, outer, layout, grep>>

Rest == Len(content) - pos
\* read_data's count, for that many bytes
ReadData(length) == IF Rest < length THEN Rest ELSE length
Read(length) == SubSeq(content, pos + 1, pos + ReadData(length))

CopyProgram ==
    /\ pc = "copy_program"
    /\ image' = image \o Read(HALF_KB)
    /\ pos' = pos + ReadData(HALF_KB)
    /\ pc' = IF ReadData(HALF_KB) = 0 THEN "start" ELSE pc
    /\ UNCHANGED <<shell, file, arguments, content, dir, grep, out>>

---------------------------------------------------------------------------
(* Programs *)

\* halt() with main's result; execute() returns it to the shell.
Return(status) == pc' = "answer" /\ rval' = status

\* open(), where it returns to; the terminal's process has descriptors left.
Open(fname, next) ==
    \E text \in ContentsOf(FirstMatch(fname)) :
        /\ content' = text /\ pos' = 0 /\ out' = <<>>
        /\ file' = FirstMatch(fname)
        /\ pc' = next

CanOpen(fname) == fname # <<>> /\ Matches(fname) # {}

\* The first steps of every program but the shell: some end at once, others wait
\* for a line, or for ticks of the clock.
Start ==
    /\ pc = "start" /\ Directory[file].program # "shell"
    /\ CASE Directory[file].program = "cat" ->
              IF CanOpen(arguments)
              THEN Open(arguments, "cat") /\ UNCHANGED <<rval, data, last, leftover>>
              ELSE Return(IF arguments = <<>> THEN 3 ELSE 2)
                   /\ UNCHANGED <<file, content, pos, out, data, last, leftover>>
         [] Directory[file].program = "grep" ->
              IF arguments = <<>>
              THEN Return(3) /\ UNCHANGED <<file, content, pos, out, data, last, leftover>>
              ELSE /\ pc' = "grep_next"
                   /\ leftover' \in {"junk", "nl"}
                   /\ data' = Fill(leftover', BUFSIZE + 1) /\ last' = 0
                   /\ UNCHANGED <<rval, file, content, pos, out>>
         [] Directory[file].program = "ls" ->
              pc' = "ls" /\ UNCHANGED <<rval, file, content, pos, out, data, last, leftover>>
         [] Directory[file].program = "testprint" ->
              Return(0) /\ UNCHANGED <<file, content, pos, out, data, last, leftover>>
         [] Directory[file].program = "sigtest" /\ arguments = <<>> ->
              Return(3) /\ UNCHANGED <<file, content, pos, out, data, last, leftover>>
         [] OTHER ->
              pc' = "waits" /\ UNCHANGED <<rval, file, content, pos, out, data, last, leftover>>
    /\ UNCHANGED <<line, buf, outer, layout, arguments, image, dir, line_start, cnt>>

StartShell ==
    /\ pc = "start" /\ Directory[file].program = "shell"
    /\ outer' = Append(outer, [line |-> line, buf |-> buf])
    /\ pc' = "prompt" /\ line' = <<>> /\ buf' = Fill("junk", LINE_SZ + 2)
    /\ file' = 0 /\ arguments' = <<>> /\ image' = <<>> /\ content' = <<>> /\ pos' = 0
    /\ UNCHANGED <<layout, rval, dir, grep, out>>

\* Of a program that waits: sigtest writes to address 0, and pingpong goes on
\* for ever.
Statuses ==
    CASE Directory[file].program \in {"hello", "counter"} -> {0}
      [] Directory[file].program = "syserr" -> {0, 2}
      [] Directory[file].program = "sigtest" -> {256}
      [] Directory[file].program = "fish" -> {0, 255}
      [] OTHER -> {}

\* Its line has been typed, or its last tick has come.
Awaited ==
    /\ pc = "waits"
    /\ \E status \in Statuses : Return(status)
    /\ UNCHANGED <<line, buf, outer, layout, process, pos, content, dir, grep, out>>

\* The 256 that it passes to halt() is 0 in a byte.
Interrupted ==
    /\ \/ pc = "prompt" /\ ShellEnds
       \/ pc = "waits" /\ pc' = "halted" /\ rval' = 0 /\ UNCHANGED <<line, buf, outer, dir>>
    /\ UNCHANGED <<layout, process, pos, content, grep, out>>

\* What read() gives of the file, of the RTC (nothing) or of the directory.
Cat ==
    /\ pc = "cat"
    /\ CASE Directory[file].filetype = 2 ->
              /\ out' = out \o Read(BUFSIZE) /\ pos' = pos + ReadData(BUFSIZE)
              /\ IF ReadData(BUFSIZE) = 0 THEN Return(0) ELSE UNCHANGED <<pc, rval>>
              /\ UNCHANGED dir
         [] Directory[file].filetype = 1 /\ dir < Len(Directory) ->
              /\ out' = out \o Directory[dir + 1].name /\ dir' = dir + 1
              /\ UNCHANGED <<pc, rval, pos>>
         [] OTHER -> Return(0) /\ UNCHANGED <<out, pos, dir>>
    /\ UNCHANGED <<line, buf, outer, layout, process, content, grep>>

Ls ==
    /\ pc = "ls"
    /\ IF dir < Len(Directory)
       THEN /\ out' = Append(out, Directory[dir + 1].name) /\ dir' = dir + 1
            /\ UNCHANGED <<pc, rval>>
       ELSE Return(0) /\ UNCHANGED <<out, dir>>
    /\ UNCHANGED <<line, buf, outer, layout, process, pos, content, grep>>

GrepNext ==
    /\ pc = "grep_next"
    /\ dir' = IF dir < Len(Directory) THEN dir + 1 ELSE dir
    /\ IF dir = Len(Directory) THEN Return(0) /\ UNCHANGED <<file, content, pos, out>>
       ELSE /\ UNCHANGED rval
            /\ LET fname == Directory[dir'].name IN
               IF fname[1] = "." THEN UNCHANGED <<pc, file, content, pos, out>>
               ELSE Open(fname, "grep_read")
    /\ last' = 0
    /\ UNCHANGED <<line, buf, outer, layout, arguments, image, data, line_start, cnt, leftover>>

Room == BUFSIZE - last

\* A read shorter than asked for ends with a "nul".
GrepRead ==
    /\ pc = "grep_read"
    /\ LET isFile == Directory[file].filetype = 2
           read == IF isFile THEN Read(Room) ELSE <<>>
       IN  /\ data' = [i \in DOMAIN data |->
                        IF i - last \in DOMAIN read THEN read[i - last]
                        ELSE IF isFile /\ Len(read) < Room /\ i = last + Len(read) + 1 THEN "nul"
                        ELSE data[i]]
           /\ cnt' = Len(read) /\ last' = last + Len(read) /\ pos' = pos + Len(read)
    /\ line_start' = 0
    /\ pc' = "grep_line"
    /\ UNCHANGED <<shell, process, content, dir, leftover, out>>

line_end == line_start + Span(data, line_start, {"nl"}, last - line_start)
Terminated == [data EXCEPT ![line_end + 1] = "nul"]

\* Mutant: a partial line is taken for a line.
Partial_Never == FALSE
Partial == data[line_end + 1] # "nl" /\ cnt # 0 /\ line_start # 0

Found ==
    \E check \in line_start + 1 .. line_end - Len(arguments) + 1 :
        SubSeq(data, check, check + Len(arguments) - 1) = arguments

KeepPartial ==
    /\ Partial
    /\ data' = Strcpy(Terminated, 0, ToNul(SubSeq(Terminated, line_start + 1, BUFSIZE + 1)))
    /\ last' = last - line_start
    /\ pc' = "grep_read"
    /\ UNCHANGED <<line_start, out>>

\* Mutant: the end of the file is not noticed.
AfterBuffer_Read == "grep_read"
AfterBuffer == IF cnt = 0 THEN "grep_close" ELSE "grep_read"

SearchLine ==
    /\ ~Partial
    /\ data' = Terminated
    /\ out' = IF Found THEN Append(out, ToNul(SubSeq(Terminated, line_start + 1, BUFSIZE + 1))) ELSE out
    /\ line_start' = line_end + 1
    /\ IF line_end + 1 < last THEN UNCHANGED <<pc, last>>
       ELSE last' = 0 /\ pc' = AfterBuffer

GrepLine ==
    /\ pc = "grep_line"
    /\ KeepPartial \/ SearchLine
    /\ UNCHANGED <<shell, process, pos, content, dir, cnt, leftover>>

GrepClose ==
    /\ pc = "grep_close"
    /\ pc' = "grep_next"
    /\ content' = <<>> /\ pos' = 0 /\ out' = <<>> /\ line_start' = 0 /\ cnt' = 0
    /\ UNCHANGED <<shell, process, dir, data, last, leftover>>

\* The shell tells -1, 256 and the others but 0 apart, and goes on.
Answer ==
    /\ pc \in {"answer", "halted"}
    /\ pc' = "prompt"
    /\ rval' = 0 /\ file' = 0 /\ arguments' = <<>> /\ image' = <<>>
    /\ content' = <<>> /\ pos' = 0 /\ out' = <<>>
    /\ data' = <<>> /\ last' = 0 /\ line_start' = 0 /\ cnt' = 0 /\ leftover' = "junk"
    /\ UNCHANGED <<line, buf, outer, layout, dir>>

\* What goes on without a key: the processor's steps, and reads of the clock, which
\* return (Rtc).
Computes ==
    \/ Execute \/ CopyProgram \/ Start \/ StartShell
    \/ Cat \/ Ls \/ GrepNext \/ GrepRead \/ GrepLine \/ GrepClose
    \/ Answer

CommandsNext == ReadLine \/ Awaited \/ Interrupted \/ Computes

CommandsSpec == CommandsInit /\ [][CommandsNext]_commands_vars /\ WF_commands_vars(Computes)

---------------------------------------------------------------------------
(* Properties *)

\* The words of a line
WordAt(typed, from) ==
    LET ends == {e \in from .. Len(typed) + 1 : e = Len(typed) + 1 \/ typed[e] = "sp"}
    IN  SubSeq(typed, from, (CHOOSE e \in ends : \A d \in ends : e <= d) - 1)
FirstWord == WordAt(line, 1)
SecondStarts == {i \in Len(FirstWord) + 1 .. Len(line) : line[i] # "sp"}
SecondAt == CHOOSE i \in SecondStarts : \A j \in SecondStarts : i <= j
SecondWord == IF SecondStarts = {} THEN <<>> ELSE WordAt(line, SecondAt)
RestOfLine == IF SecondStarts = {} THEN <<>> ELSE SubSeq(line, SecondAt, Len(line))

Cut(string, size) == SubSeq(string, 1, IF Len(string) < size THEN Len(string) ELSE size)

\* A program that starts is the one the line's first word names, whole, and its
\* argument begins with the second word, cut to the array's size, and is that if
\* it is the last of the line: whatever longer line is left in the shell's
\* buffer, and wherever the "nul" behind a word that fills its array is written.
\* "no such command" is the answer only if there is none, or if an argument that
\* fills its array ends in the name's first byte.
RunsTheCommand ==
    /\ pc = "start" =>
          /\ Directory[file].name = FirstWord /\ image = Executable
          /\ IsPrefix(Cut(SecondWord, COMMAND_ARG_SZ), arguments)
          /\ RestOfLine = SecondWord => arguments = Cut(SecondWord, COMMAND_ARG_SZ)
    /\ pc = "answer" /\ rval = -1 =>
          \/ \A i \in DOMAIN Directory : Directory[i].name = FirstWord => Directory[i].program = "none"
          \/ layout = "args_first" /\ Len(SecondWord) >= COMMAND_ARG_SZ

\* What parse_command() says of the argument: it is the rest of the line.
RestIsTheArgument == pc = "start" => arguments = Cut(RestOfLine, COMMAND_ARG_SZ)

HasPattern(text) ==
    \E i \in 0 .. Len(text) - Len(arguments) : SubSeq(text, i + 1, i + Len(arguments)) = arguments

\* The lines of a text that have the pattern: those that have ended, and the one
\* that the text ends in.
Ended(at) == IF HasPattern(at.line) THEN Append(at.lines, at.line) ELSE at.lines
LinesWithPattern(text) ==
    LET upto[n \in 0 .. Len(text)] ==
            IF n = 0 THEN [lines |-> <<>>, line |-> <<>>]
            ELSE IF text[n] = "nl" THEN [lines |-> Ended(upto[n - 1]), line |-> <<>>]
            ELSE [lines |-> upto[n - 1].lines, line |-> Append(upto[n - 1].line, text[n])]
    IN  Ended(upto[Len(text)])
LinesFit(text) ==
    \A i \in 1 .. Len(text) - BUFSIZE : \E k \in i .. i + BUFSIZE : text[k] = "nl"

Runs(program) ==
    \E i \in DOMAIN Directory : Directory[i].name = FirstWord /\ Directory[i].program = program

\* cat prints the file that its argument names, of every length, from the first
\* byte to the last, and gives up only if there is none of that name, the longest
\* that an entry holds included.  grep prints exactly the lines of a text file
\* with the pattern, once and in order, wherever reads cut them: if lines fit its
\* buffer, and if the byte behind the buffer, which nothing sets, is not a newline
\* by chance.
PrintsTheText ==
    /\ pc = "answer" /\ rval = 0 /\ Runs("cat") =>
          CASE Directory[file].filetype = 2 -> arguments = Directory[file].name /\ out = content
            [] Directory[file].filetype = 1 ->
                  out = FlattenSeq([i \in DOMAIN Directory |-> Directory[i].name])
            [] OTHER -> out = <<>>
    /\ pc = "answer" /\ rval = 2 /\ arguments # <<>> /\ Runs("cat") =>
          \A i \in DOMAIN Directory : Directory[i].name # arguments
    /\ pc = "grep_close" /\ content # Executable /\ leftover # "nl" /\ LinesFit(content) =>
          out = LinesWithPattern(content)

\* The programs that wait for a line or for ticks, and the shell
Waiting == {"hello", "counter", "syserr", "sigtest", "fish", "pingpong", "shell"}

\* Every line that names one of the others, or no program, is answered: the loops
\* of copy_program, of cat, grep and ls end for every file.
EveryLineAnswered ==
    (pc = "execute" /\ \A program \in Waiting : ~Runs(program)) ~> pc = "prompt"
====
