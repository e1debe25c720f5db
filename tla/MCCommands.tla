---- MODULE MCCommands ----
(* A small file system, and the lines that its names and the sizes of the
   arrays call for. *)
EXTENDS Commands

Entry(name, filetype, program) == [name |-> name, filetype |-> filetype, program |-> program]

MCDirectory ==
    << Entry(<<".">>, 1, "none"),
       Entry(<<"g", "r">>, 2, "grep"),
       Entry(<<"c">>, 2, "cat"),
       Entry(<<"l">>, 2, "ls"),
       Entry(<<"h">>, 2, "hello"),
       Entry(<<"s">>, 2, "shell"),
       Entry(<<"r">>, 0, "none"),
       Entry(<<"b", "b", "b">>, 2, "none"),
       Entry(<<"b", "b", "b", "b">>, 2, "none") >>

\* The programs that wait, and no others
MCShellDirectory ==
    << Entry(<<"g", "r">>, 2, "grep"),
       Entry(<<"s", "h">>, 2, "shell"),
       Entry(<<"c">>, 2, "counter"),
       Entry(<<"y">>, 2, "syserr"),
       Entry(<<"s">>, 2, "sigtest"),
       Entry(<<"f">>, 2, "fish"),
       Entry(<<"p">>, 2, "pingpong"),
       Entry(<<"t">>, 2, "testprint") >>

MCExecutable == <<"elf", "nul", "b">>

MCTexts == UNION {[1 .. n -> {"a", "b", "nl"}] : n \in 0 .. 4}

\* Of every line a short one after a long one, words that fill their arrays
\* and one byte more, leading, double and trailing spaces.
MCTypedLines ==
    { <<>>, <<"e">>, <<"h">>, <<"s">>, <<"l">>, <<"l", "sp">>, <<"sp", "h">>, <<"x">>, <<"g", "sp", "b">>,
      <<"b", "b", "b">>, <<"b", "b", "b", "sp", "a">>, <<"b", "b", "b", "b", "b", "h">>,
      <<"g", "r">>, <<"g", "r", "sp", "b", "sp", "a">>, <<"g", "r", "sp", "sp", "b", "a">>,
      <<"c", "sp", "b", "b", "b", "b">>, <<"c", "sp", "b", "b", "b", "b", "b">>,
      <<"c", "sp", "b", "b", "b", "b", "b", "b">>, <<"c", "sp", ".">>, <<"c", "sp", "r">> }
MCShellLines ==
    { <<>>, <<"e">>, <<"s", "h">>, <<"c">>, <<"y">>, <<"s">>, <<"s", "sp", "a">>, <<"f">>, <<"p">>, <<"t">>,
      <<"s", "h", "sp", "a", "sp", "b", "b">> }
MCExit == <<"e">>

\* Bound: a shell within the first is explored where grep has not run, with lines
\* that name nothing, a program that waits, a shell, or ls.
MCNested ==
    outer # <<>> => data = <<>> /\ line \in {<<>>, <<"x">>, <<"h">>, <<"s">>, <<"l">>}
====
