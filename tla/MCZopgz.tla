------------------------------- MODULE MCZopgz -------------------------------
(* One directory for Zopgz: a is a file and its output is not there, b is a    *)
(* file and there is something at its output, which may be a directory, c is a *)
(* link, and d is missing, while there is something at its output; e is        *)
(* compressed and has no suffix.                                               *)
EXTENDS Zopgz

CONSTANTS
  Longest,                       \* of the command lines
  ta0, ta1, tb0, tb1, tc0, td1, te0  \* the texts of the files

\* root is at b behind its suffix, layer is the last layer of compressed files
Entry(n, root, layer) ==
  CASE n = <<"a", 0>> -> File(<<ta0>>)
    [] n = <<"a", 1>> -> IF layer = "none" THEN Absent ELSE File(<<ta1, layer>>)
    [] n = <<"b", 0>> -> File(<<tb0>>)
    [] n = <<"b", 1>> -> [type |-> root, data |-> <<tb1, "gz">>]
    [] n = <<"c", 0>> -> [type |-> "link", data |-> <<tc0>>]
    [] n = <<"d", 1>> -> File(<<td1, IF layer = "none" THEN "gz" ELSE layer>>)
    [] n = <<"e", 0>> -> File(<<te0, "gz">>)
    [] OTHER -> Absent

MCBases == {"a", "b", "c", "d", "e"}
MCTexts == {ta0, ta1, tb0, tb1, tc0, td1, te0}

\* one or two of the names, which may be the same
Pairs(names) == {<<n>> : n \in names} \cup (names \X names)

JobOf(root, layer, line, operands, options, hdrname) ==
  [dir |-> [n \in Names |-> Entry(n, root, layer)],
   line |-> line, operands |-> operands, options |-> options, hdrname |-> hdrname]

\* the operands behind an argument with the options
JobsOf(roots, layers, operands, given, hdrnames) ==
  {JobOf(root, layer, <<"-k">> \o [k \in DOMAIN s |-> "name"], <<<<"d", 0>>>> \o s, o, h) :
     root \in roots, layer \in layers, s \in operands, o \in given, h \in hdrnames}

Compressions ==
  JobsOf({"file", "link", "dir", "linkdir"}, {"none"},
         Pairs({<<"a", 0>>, <<"b", 0>>, <<"b", 1>>, <<"c", 0>>, <<"d", 0>>}),
         SUBSET {"force", "keep", "stdout", "fast", "tty"}
           \cup {{"closefails"} \cup o : o \in SUBSET {"force", "keep"}}
           \cup {{"fast", "nomemory"} \cup o : o \in SUBSET {"keep"}}, {NoName})

\* d and e may be the names in the headers
Compressed == {<<"a", 1>>, <<"b", 1>>, <<"d", 1>>, <<"e", 0>>}
Expansions ==
  JobsOf({"file"}, {"gz", "gz+", "cut"}, Pairs(Compressed),
         {{"decompress"} \cup o : o \in SUBSET {"force", "keep", "stdout", "tty"}}
           \cup {{"decompress", "nostore"}, {"decompress", "closefails"}},
         {NoName, <<"d", 0>>, <<"e", 0>>})

\* All command lines of up to Longest arguments; of the files they name only
\* the last is there.
LineJobs ==
  LET Lines == UNION {[1 .. n -> Args!Kinds] : n \in 0 .. Longest}
  IN {JobOf("file", "gz", l, [k \in DOMAIN l |-> IF k = Len(l) THEN <<"a", 1>> ELSE <<"c", 1>>],
            {"decompress", "keep"}, NoName) : l \in Lines}

MCJobs == Compressions \cup Expansions \cup LineJobs
DeleteJobs == JobsOf({"file"}, {"cut"}, Pairs(Compressed), {{"decompress"}}, {NoName})
=============================================================================
