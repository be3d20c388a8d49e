-------------------------------- MODULE Zopgz --------------------------------
(***************************************************************************)
(* The command (zopgz.c): the arguments are read, and for each operand     *)
(* among them the input is looked at, the name of the output is decided,   *)
(* what is there is removed if the user agrees, the output is written, and *)
(* the input is removed. The loops over the arguments are those of         *)
(* ZopgzArgs.                                                              *)
(*                                                                         *)
(* A name is a base and the number of suffixes behind it. What a file      *)
(* holds is a text and the layers around it: "gz" is a compressed file,    *)
(* "gz+" one with other data behind it, and of a "cut" one only a part is  *)
(* there. The library that compresses is one step, with its reads and      *)
(* writes around it; a process that is killed stops in any of the states.  *)
(* Permissions, times and messages are left out, and so is stdin, which is *)
(* no file to be kept.                                                     *)
(***************************************************************************)
EXTENDS Integers, Sequences, SequencesExt

CONSTANTS
  Bases, Depth,  \* names
  Texts,         \* what the files hold
  IOErrors,      \* whether opening, reading and writing may fail
  Jobs           \* directories and command lines: line says what each argument is,
                 \* operands which file it would name, options what the options say

Names == Bases \X (0 .. Depth)
NoName == <<>>
Layers == {"gz", "gz+", "cut"}
IsData(d) == d # <<>> /\ d[1] \in Texts /\ \A k \in 2 .. Len(d) : d[k] \in Layers
IsEntry(e) == /\ e.type \in {"none", "file", "link", "dir", "linkdir"}
              /\ e.data \in Seq(Texts \cup Layers)
              /\ e.type \in {"file", "link"} => IsData(e.data)
\* what the options say, and what may go wrong: closing the output, or
\* allocating memory for what zlib has compressed
Options == {"force", "keep", "stdout", "decompress", "fast", "tty", "nostore",
            "closefails", "nomemory"}

ASSUME DepthAssumption == Depth \in Nat /\ IOErrors \in BOOLEAN
ASSUME JobsAssumption ==
  \A j \in Jobs :
    /\ j.dir = [n \in Names |-> j.dir[n]] /\ \A n \in Names : IsEntry(j.dir[n])
    /\ j.line \in Seq(STRING) /\ j.operands \in Seq(Names) /\ Len(j.operands) = Len(j.line)
    /\ \A k \in 1 .. Len(j.operands) : j.operands[k][2] < Depth
    /\ j.options \subseteq Options /\ j.hdrname \in Names \cup {NoName}

VARIABLES
  job,      \* never changes
  phase, i, end_of_opts, use_stdin, seen, processed,  \* see ZopgzArgs
  pc,
  dir,
  cur,      \* the operand of process_one
  out,      \* outpath, or NoName for NULL
  src,      \* what was read
  made,     \* what was written
  strm,     \* the z_stream: none, open, freed, or freed twice
  ret,      \* the value of ret, as in ungzlib.h: 1 is Z_STREAM_END
  exit_rc,
  fault,    \* what went wrong with this output without an effect on ret
  over,     \* what was replaced because the user has agreed
  lost      \* what was removed although nothing complete was made of it
            \* the last three are history, for the properties

args == <<phase, i, end_of_opts, use_stdin, seen, processed>>
output == <<made, fault>>
task == <<cur, out, src, output, strm, ret>>
gone == <<over, lost>>
vars == <<job, args, pc, dir, task, exit_rc, gone>>

Args == INSTANCE ZopgzArgs WITH argv <- job.line, pc <- phase

force == "force" \in job.options
keep == "keep" \in job.options
write_stdout == "stdout" \in job.options
decompress == "decompress" \in job.options
fast == "fast" \in job.options
closefails == "closefails" \in job.options

Absent == [type |-> "none", data |-> <<>>]
File(d) == [type |-> "file", data |-> d]
Part(d) == Append(d, "cut")

Init ==
  /\ job \in Jobs
  /\ pc = "next" /\ dir = job.dir
  /\ Args!Init
  /\ cur = NoName /\ out = NoName /\ src = <<>> /\ made = <<>> /\ strm = "none" /\ ret = 1
  /\ exit_rc = 0 /\ fault = "none" /\ over = {} /\ lost = {}
-----------------------------------------------------------------------------
(* main *)

\* Without an operand the input is stdin.
Arguments ==
  /\ pc = "next"
  /\ UNCHANGED <<job, dir, task, exit_rc, gone>>
  /\ Args!Parse \/ Args!SkipEnd \/ Args!SkipOption \/ Args!Finished
  /\ pc' = IF phase' \in {"usage", "stdin", "done"} THEN "exit" ELSE "next"

Operand ==
  /\ pc = "next"
  /\ UNCHANGED <<job, dir, exit_rc, gone>>
  /\ Args!ProcessOne
  /\ cur' = job.operands[i] /\ pc' = "probe"
  /\ out' = NoName /\ ret' = 1 /\ strm' = "none" /\ src' = <<>> /\ made' = <<>>
  /\ fault' = "none"

Return(r) ==
  /\ ret' = r /\ exit_rc' = (IF r > exit_rc THEN r ELSE exit_rc)
  /\ pc' = "next"
-----------------------------------------------------------------------------
(* process_one *)

Skipped == \/ dir[cur].type \in {"link", "linkdir"} /\ ~force
           \/ dir[cur].type \in {"dir", "linkdir"}

Probe ==
  /\ pc = "probe"
  /\ IF Skipped THEN Return(1)
     ELSE pc' = (IF decompress THEN "stream" ELSE "name") /\ UNCHANGED <<ret, exit_rc>>
  /\ UNCHANGED <<job, args, dir, cur, out, src, output, strm, gone>>

OpenStream ==
  /\ pc = "stream"
  /\ \/ /\ dir[cur].type = "none" \/ IOErrors
        /\ Return(1) /\ UNCHANGED <<src, strm>>
     \/ /\ dir[cur].type # "none"
        /\ strm' = "open" /\ src' = dir[cur].data
        /\ pc' = IF write_stdout THEN "create" ELSE "decide"
        /\ UNCHANGED <<ret, exit_rc>>
  /\ UNCHANGED <<job, args, dir, cur, out, output, gone>>

\* decide_outpath: a header with a name is hardly ever read, see Ungzlib
HeaderRead ==
  IF Len(src) = 1 THEN {FALSE}
  ELSE IF Last(src) = "cut" \/ job.hdrname # NoName THEN BOOLEAN ELSE {TRUE}

DecideOutpath ==
  /\ pc = "decide"
  /\ \E read \in HeaderRead :
       IF ~read THEN pc' = "fail" /\ UNCHANGED <<out, strm>>
       ELSE IF job.hdrname # NoName /\ "nostore" \notin job.options
         THEN out' = job.hdrname /\ pc' = "prepare" /\ UNCHANGED strm
       ELSE IF cur[2] > 0
         THEN out' = <<cur[1], cur[2] - 1>> /\ pc' = "prepare" /\ UNCHANGED strm
         ELSE strm' = "freed" /\ pc' = "fail" /\ UNCHANGED out
  /\ UNCHANGED <<job, args, dir, cur, src, output, ret, exit_rc, gone>>

\* make_outname_with_suffix
AddSuffix ==
  /\ pc = "name"
  /\ IF write_stdout
       THEN UNCHANGED out /\ pc' = IF fast THEN "create" ELSE "load"
       ELSE out' = <<cur[1], cur[2] + 1>> /\ pc' = "prepare"
  /\ UNCHANGED <<job, args, dir, cur, src, output, strm, ret, exit_rc, gone>>

Agrees == IF force THEN {TRUE} ELSE IF "tty" \in job.options THEN BOOLEAN ELSE {FALSE}

\* prepare_out_for_write; what it removes may also be the input itself, or what
\* was made of another operand
Prepare ==
  /\ pc = "prepare"
  /\ \/ /\ dir[out].type = "none"
        /\ pc' = (IF decompress \/ fast THEN "create" ELSE "load") /\ UNCHANGED <<dir, gone>>
     \/ /\ dir[out].type = "dir"
        /\ pc' = "fail" /\ UNCHANGED <<dir, gone>>
     \/ /\ dir[out].type \notin {"none", "dir"}
        /\ \E agreed \in Agrees :
             IF agreed
               THEN /\ dir' = [dir EXCEPT ![out] = Absent]
                    /\ IF out # cur /\ dir[out] = job.dir[out]
                         THEN over' = over \cup {dir[out].data} /\ UNCHANGED lost
                         ELSE lost' = lost \cup {dir[out].data} /\ UNCHANGED over
                    /\ pc' = IF decompress \/ fast THEN "create" ELSE "load"
               ELSE pc' = "fail" /\ UNCHANGED <<dir, gone>>
  /\ UNCHANGED <<job, args, task, exit_rc>>
-----------------------------------------------------------------------------
(* ZopfliGzip, zlib_gz and ungzlib_extract_to *)

\* ZopfliGzip reads the input before it opens the output, zlib_gz after it.
Load ==
  /\ pc = "load"
  /\ \/ /\ dir[cur].type = "none" \/ IOErrors
        /\ ret' = -3 /\ pc' = "finish" /\ UNCHANGED src
     \/ /\ dir[cur].type # "none"
        /\ src' = dir[cur].data
        /\ pc' = (IF fast THEN "write" ELSE "create") /\ UNCHANGED ret
  /\ UNCHANGED <<job, args, dir, cur, out, output, strm, exit_rc, gone>>

Create ==
  /\ pc = "create"
  /\ \/ /\ ~decompress /\ fast /\ dir[cur].type = "none"
        /\ ret' = -3 /\ pc' = "finish" /\ UNCHANGED dir
     \/ /\ IOErrors
        /\ ret' = -1 /\ pc' = "finish" /\ UNCHANGED dir
     \/ /\ decompress \/ ~fast \/ dir[cur].type # "none"
        /\ dir' = IF write_stdout THEN dir
                  ELSE [dir EXCEPT ![out] =
                          File(Part(IF ~decompress /\ fast THEN dir[cur].data ELSE src))]
        /\ pc' = (IF ~decompress /\ fast THEN "load" ELSE "write") /\ UNCHANGED ret
  /\ UNCHANGED <<job, args, cur, out, src, output, strm, exit_rc, gone>>

\* ungzlib_process_all, as Ungzlib models it: what is put out, and ret
Expanded ==
  IF Len(src) = 1 \/ Last(src) = "cut" THEN {<<Part(src), -3>>}
  ELSE IF Last(src) = "gz" THEN {<<Front(src), 0>>}
  ELSE {<<Front(src), 1>>, <<Front(src), -3>>}

\* zlib_gz still has the Z_OK of deflateInit2 in ret when malloc fails
NoMemory == IF fast /\ "nomemory" \in job.options THEN {<<Part(src), 0>>} ELSE {}

Written == IF decompress THEN Expanded ELSE {<<Append(src, "gz"), 0>>} \cup NoMemory

Write ==
  /\ pc = "write"
  /\ \E w \in Written \cup (IF IOErrors THEN {<<Part(src), -1>>} ELSE {}) :
       /\ made' = w[1] /\ ret' = w[2]
       /\ fault' = IF w \in NoMemory THEN "malloc" ELSE "none"
  /\ pc' = "close"
  /\ UNCHANGED <<job, args, dir, cur, out, src, strm, exit_rc, gone>>

\* The rest is written when the output is closed; nobody asks whether it was.
CloseOutput ==
  /\ pc = "close"
  /\ IF write_stdout THEN UNCHANGED <<dir, fault>>
     ELSE \E complete \in (IF closefails THEN BOOLEAN ELSE {TRUE}) :
            /\ dir' = [dir EXCEPT ![out] = File(IF complete THEN made ELSE Part(src))]
            /\ fault' = IF complete THEN fault ELSE "fclose"
  /\ pc' = "finish"
  /\ UNCHANGED <<job, args, cur, out, src, made, strm, ret, exit_rc, gone>>
-----------------------------------------------------------------------------
\* (g_decompress && Z_STREAM_END) holds whenever the command decompresses
SuccessSlip == TRUE  \* slip: ret is not looked at
Success == ret = 0 \/ decompress

Removes == ~write_stdout /\ ~keep

\* the input is removed as after a success, but the output is not complete
Mishap == fault # "none" \/ (decompress /\ ret \notin {0, 1})

Finish ==
  /\ pc = "finish"
  /\ IF Success /\ Removes
       THEN \/ /\ dir' = [dir EXCEPT ![cur] = Absent]
               /\ lost' = IF Mishap THEN lost \cup {dir[cur].data} ELSE lost
            \/ IOErrors /\ UNCHANGED <<dir, lost>>
       ELSE UNCHANGED <<dir, lost>>
  /\ pc' = "fail"
  /\ UNCHANGED <<job, args, task, exit_rc, over>>

\* ungzlib_close, which frees what is freed already
ReleaseSlip == IF ret = 0 /\ strm = "open" THEN "freed" ELSE strm  \* slip: not after an error
Release == IF strm = "open" THEN "freed" ELSE IF strm = "freed" THEN "twice" ELSE strm

Fail ==
  /\ pc = "fail"
  /\ strm' = Release
  /\ Return(ret)
  /\ UNCHANGED <<job, args, dir, cur, out, src, output, gone>>

Exited == pc = "exit" /\ UNCHANGED vars

Next == Arguments \/ Operand \/ Probe \/ OpenStream \/ DecideOutpath \/ AddSuffix \/ Prepare \/ Load
        \/ Create \/ Write \/ CloseOutput \/ Finish \/ Fail \/ Exited

Spec == Init /\ [][Next]_vars
-----------------------------------------------------------------------------
\* d is what d0 was, or what it was compressed or decompressed to.
Holds(d, d0) ==
  \/ IsPrefix(d0, d) /\ \A k \in Len(d0) + 1 .. Len(d) : d[k] = "gz"
  \/ IsPrefix(d, d0) /\ \A k \in Len(d) + 1 .. Len(d0) : d0[k] # "cut"

Found(n) == \E m \in Names : /\ dir[m].type \in {"file", "link"}
                             /\ Holds(dir[m].data, job.dir[n].data)
IsIn(n, contents) == \E d \in contents : Holds(d, job.dir[n].data)
Replaced(n) == (force \/ "tty" \in job.options) /\ IsIn(n, over)

\* "keep input files (default is to delete on success)" (zopgz.c:76): of what
\* the files held at the start, all is still there at every moment, as it was
\* or in an output that is complete, unless the user has agreed to replace it.
Survives == \A n \in Names : job.dir[n].type = "file" => Found(n) \/ Replaced(n)

\* It is not so (zopgz_delete); but apart from that something is lost in these
\* ways only: the input is removed after a decompression with an error, after a
\* malloc or an fclose has failed, each of which counts as a success; or, with
\* consent, prepare_out_for_write removes what was made of an earlier operand, or
\* the input itself, whose stored name is its own.
LossesKnown == \A n \in Names :
  job.dir[n].type = "file" => Found(n) \/ Replaced(n) \/ IsIn(n, lost)

\* decide_outpath "cleaned up on header failure" (zopgz.c:522): after an operand
\* its stream is released, and none is released twice, unless the header could be
\* read, no name in it is used, and the operand has no suffix to take away: then
\* decide_outpath has released the stream already (zopgz.c:411).
ReleasedOnce ==
  /\ pc = "next" => strm # "open"
  /\ strm = "twice" => decompress /\ ~write_stdout /\ Len(src) # 1 /\ out = NoName /\ cur[2] = 0

\* "-S, --suffix=SUF: use suffix SUF on compressed files" (zopgz.c:74): main
\* gives process_one the arguments that parse_args has taken for names,
\* and so never the value of an option, unless its -S ends a cluster: main does
\* not know that such a cluster takes a value.
LoopsAgree ==
  ~Args!EndsCluster =>
    /\ processed \subseteq seen
    /\ phase = "done" => processed = seen
=============================================================================
