---------------------------- MODULE ZopgzProofs ------------------------------
(***************************************************************************)
(* Proofs about Zopgz, for command lines of any length, any directory and  *)
(* any number of operands: both loops over the arguments find the same     *)
(* operands; every stream is released, and twice only after one known      *)
(* return; and nothing a file held is lost in a way that is not known.     *)
(***************************************************************************)
EXTENDS Zopgz, SequenceTheorems, TLAPS

line == job.line
End == Len(line)

\* The arguments that may become operands.
Operands(j) == {k \in 1 .. Len(j.line) : \/ j.line[k] = "name"
                                         \/ \E l \in 1 .. k - 1 : j.line[l] = "--"}

InTask == pc \notin {"next", "exit"}

\* what is known of the arguments while an operand is processed
BasicInv ==
  /\ job \in Jobs
  /\ pc \in {"next", "probe", "stream", "decide", "name", "prepare", "load", "create", "write",
             "close", "finish", "fail", "exit"}
  /\ phase \in {"parse_args", "main", "usage", "stdin", "done"}
  /\ i \in Nat /\ i > 0 /\ end_of_opts \in BOOLEAN
  /\ phase \notin {"main", "done"} => processed = {}
  /\ phase = "main" /\ end_of_opts = TRUE => \E l \in 1 .. i - 1 : line[l] = "--"
  /\ processed \subseteq Operands(job) /\ \A k \in processed : k < i
  /\ InTask => /\ phase = "main"
               /\ i - 1 \in processed /\ cur = job.operands[i - 1]

\* The constants of a job.
LEMMA JobFacts ==
  ASSUME NEW j \in Jobs
  PROVE  /\ Len(j.line) \in Nat /\ \A k \in 1 .. Len(j.line) : j.line[k] \in STRING
         /\ \A k \in 1 .. Len(j.line) :
              /\ j.operands[k] \in Names
              /\ j.operands[k][1] \in Bases /\ j.operands[k][2] \in 0 .. Depth - 1
         /\ \A n \in Names : IsEntry(j.dir[n])
         /\ j.dir = [n \in Names |-> j.dir[n]]
         /\ j.hdrname \in Names \cup {NoName}
         /\ Depth \in Nat /\ IOErrors \in BOOLEAN
<1>1. /\ j.line \in Seq(STRING) /\ j.operands \in Seq(Names) /\ Len(j.operands) = Len(j.line)
      /\ \A k \in 1 .. Len(j.operands) : j.operands[k][2] < Depth
      /\ \A n \in Names : IsEntry(j.dir[n])
      /\ j.dir = [n \in Names |-> j.dir[n]] /\ j.hdrname \in Names \cup {NoName}
  BY JobsAssumption
<1>2. Len(j.line) \in Nat /\ \A k \in 1 .. Len(j.line) : j.line[k] \in STRING
  BY <1>1, LenProperties, ElementOfSeq
<1>3. \A k \in 1 .. Len(j.line) : j.operands[k] \in Names
  BY <1>1, ElementOfSeq
<1>4. \A n \in Names : n[1] \in Bases /\ n[2] \in 0 .. Depth
  BY DEF Names
<1>5. Depth \in Nat /\ IOErrors \in BOOLEAN
  BY DepthAssumption
<1>. QED  BY <1>1, <1>2, <1>3, <1>4, <1>5

\* The two kinds of steps: those of the loops over the arguments, and the others,
\* which leave the arguments alone.
Steps == Probe \/ OpenStream \/ DecideOutpath \/ AddSuffix \/ Prepare \/ Load \/ Create \/ Write
         \/ CloseOutput \/ Finish \/ Fail

LEMMA StepsLeaveArgs ==
  ASSUME Steps
  PROVE  UNCHANGED <<job, phase, i, end_of_opts, use_stdin, seen, processed, cur>>
BY DEF Steps, Probe, OpenStream, DecideOutpath, AddSuffix, Prepare, Load, Create, Write,
       CloseOutput, Finish, Fail, args, task

LEMMA ArgumentsBasic ==
  ASSUME BasicInv, Arguments
  PROVE  BasicInv'
<1>. USE DEF BasicInv
<1>1. /\ pc = "next" /\ pc' \in {"next", "exit"} /\ job' = job /\ job \in Jobs
      /\ Args!Parse \/ Args!SkipEnd \/ Args!SkipOption \/ Args!Finished
  BY DEF Arguments
<1>2. line' = line /\ End \in Nat /\ Operands(job)' = Operands(job) /\ ~InTask'
  BY <1>1, JobFacts DEF line, End, Operands, InTask
<1>3. processed' = processed
  BY <1>1 DEF Args!Parse, Args!ParseName, Args!ParseStdin, Args!ParseOption, Args!ParseSuffix,
              Args!Parsed, Args!SkipEnd, Args!SkipOption, Args!Finished
<1>4. CASE Args!Parse
  <2>1. phase = "parse_args"
    BY <1>4 DEF Args!Parse, Args!ParseName, Args!ParseStdin, Args!ParseOption, Args!ParseSuffix,
                Args!Parsed, Args!Parsing
  <2>2. /\ phase' \in {"parse_args", "main", "usage", "stdin"}
        /\ i' \in {1, i, i + 1, i + 2}
        /\ phase' = "main" => end_of_opts' = FALSE
    BY <1>4, <2>1 DEF Args!Parse, Args!ParseName, Args!ParseStdin, Args!ParseOption,
                      Args!ParseSuffix, Args!Parsed
  <2>3. end_of_opts' \in BOOLEAN
    <3>1. Args!EndsOptions \in BOOLEAN
      BY DEF Args!EndsOptions
    <3>. QED  BY <1>4, <3>1 DEF Args!Parse, Args!ParseName, Args!ParseStdin, Args!ParseOption,
                                Args!ParseSuffix, Args!Parsed
  <2>4. i' \in Nat /\ i' > 0 /\ processed = {} /\ processed' = {}
    BY <1>3, <2>1, <2>2
  <2>. QED  BY <1>1, <1>2, <2>2, <2>3, <2>4
<1>5. CASE Args!SkipEnd
  <2>1. /\ phase = "main" /\ phase' = "main" /\ i <= End /\ line[i] = "--" /\ end_of_opts' = TRUE
        /\ i' = i + 1
    BY <1>5 DEF Args!SkipEnd, Args!InMain, Args!a, line, End
  <2>2. i \in 1 .. i' - 1 /\ i' \in Nat /\ i' > 0 /\ \A k \in processed : k \in Int /\ k < i'
    BY <2>1 DEF Operands
  <2>. QED  BY <1>1, <1>2, <1>3, <2>1, <2>2
<1>6. CASE Args!SkipOption
  <2>1. phase = "main" /\ phase' = "main" /\ end_of_opts' = end_of_opts /\ i' \in {i + 1, i + 2}
    BY <1>6 DEF Args!SkipOption, Args!InMain
  <2>2. end_of_opts' = FALSE
    BY <1>6 DEF Args!SkipOption
  <2>3. i' \in Nat /\ i' > 0 /\ \A k \in processed : k \in Int /\ k < i'
    BY <2>1 DEF Operands
  <2>. QED  BY <1>1, <1>2, <1>3, <2>1, <2>2, <2>3
<1>7. CASE Args!Finished
  <2>1. phase = "main" /\ phase' = "done" /\ UNCHANGED <<i, end_of_opts>>
    BY <1>7 DEF Args!Finished
  <2>. QED  BY <1>1, <1>2, <1>3, <2>1
<1>. QED  BY <1>1, <1>4, <1>5, <1>6, <1>7

LEMMA OperandBasic ==
  ASSUME BasicInv, Operand
  PROVE  BasicInv'
<1>. USE DEF BasicInv
<1>1. /\ pc = "next" /\ pc' = "probe" /\ job' = job /\ job \in Jobs /\ cur' = job.operands[i]
      /\ phase = "main" /\ phase' = "main" /\ i <= End /\ end_of_opts' = end_of_opts
      /\ line[i] = "name" \/ end_of_opts
      /\ processed' = processed \cup {i} /\ i' = i + 1
  BY DEF Operand, Args!ProcessOne, Args!InMain, Args!a, line, End
<1>2. line' = line /\ End \in Nat /\ Operands(job)' = Operands(job) /\ i' - 1 = i
  BY <1>1, JobFacts DEF line, End, Operands
<1>3. i \in Operands(job)
  BY <1>1, <1>2 DEF Operands, line, End
<1>4. i' \in Nat /\ i' > 0 /\ \A k \in processed' : k \in Int /\ k < i'
  BY <1>1 DEF Operands
<1>5. end_of_opts' => \E l \in 1 .. i' - 1 : line'[l] = "--"
  BY <1>1, <1>2
<1>6. processed' \subseteq Operands(job)' /\ i' - 1 \in processed' /\ cur' = job'.operands[i' - 1]
  BY <1>1, <1>2, <1>3
<1>. QED  BY <1>1, <1>4, <1>5, <1>6

LEMMA BasicStep ==
  ASSUME BasicInv, [Next]_vars
  PROVE  BasicInv'
<1>1. CASE Arguments
  BY <1>1, ArgumentsBasic
<1>2. CASE Operand
  BY <1>2, OperandBasic
<1>3. CASE Steps
  <2>1. /\ InTask /\ UNCHANGED <<job, phase, i, end_of_opts, processed, cur>>
    BY <1>3, StepsLeaveArgs
       DEF Steps, Probe, OpenStream, DecideOutpath, AddSuffix, Prepare, Load, Create, Write,
           CloseOutput, Finish, Fail, InTask
  <2>2. pc' \in {"next", "probe", "stream", "decide", "name", "prepare", "load", "create", "write",
                 "close", "finish", "fail", "exit"}
    BY <1>3 DEF Steps, Probe, OpenStream, DecideOutpath, AddSuffix, Prepare, Load, Create, Write,
                CloseOutput, Finish, Fail, Return
  <2>. QED  BY <2>1, <2>2 DEF BasicInv, line, Operands, InTask
<1>4. CASE Exited \/ UNCHANGED vars
  <2>1. UNCHANGED <<job, phase, i, end_of_opts, processed, cur, pc>>
    BY <1>4 DEF Exited, vars, args, task
  <2>2. line' = line /\ Operands(job)' = Operands(job) /\ InTask' = InTask
    BY <2>1 DEF line, Operands, InTask
  <2>. QED  BY <2>1, <2>2 DEF BasicInv
<1>. QED  BY <1>1, <1>2, <1>3, <1>4 DEF Next, Steps

LEMMA BasicInit == Init => BasicInv
<1>1. ASSUME Init PROVE BasicInv
  <2>1. /\ job \in Jobs /\ pc = "next" /\ phase = "parse_args" /\ i = 1 /\ end_of_opts = FALSE
        /\ processed = {}
    BY <1>1 DEF Init, Args!Init
  <2>2. ~InTask /\ processed \subseteq Operands(job) /\ \A k \in processed : k < i
    BY <2>1 DEF InTask
  <2>3. end_of_opts \in BOOLEAN /\ end_of_opts # TRUE
    BY <2>1
  <2>4. i \in Nat /\ i > 0
    BY <2>1
  <2>. QED  BY <2>1, <2>2, <2>3, <2>4 DEF BasicInv
<1>. QED  BY <1>1
-----------------------------------------------------------------------------
(* The two loops over the arguments. *)

\* A place of a loop is an index and the value of end_of_opts. Named says that
\* the argument there is an operand, After where the loop goes on: both loops
\* are to agree with it.
Places == Nat \X BOOLEAN
Named(l, x) == x[1] <= Len(l) /\ (l[x[1]] = "name" \/ x[2] = TRUE)
After(l, x) ==
  IF x[2] = TRUE \/ l[x[1]] \notin {"--", "-S"} THEN <<x[1] + 1, x[2]>>
  ELSE IF l[x[1]] = "--" THEN <<x[1] + 1, TRUE>>
  ELSE IF x[1] < Len(l) THEN <<x[1] + 2, FALSE>> ELSE <<x[1] + 1, FALSE>>

\* the places a loop comes to from x on
Closed(l, C) == \A y \in C : y[1] <= Len(l) => After(l, y) \in C
From(l, x) == {y \in Places : \A C \in SUBSET Places : x \in C /\ Closed(l, C) => y \in C}

At == <<i, end_of_opts>>
Start == <<1, FALSE>>

AgreeInv ==
  /\ \A k \in seen : \E x \in From(line, Start) : x[1] = k /\ Named(line, x)
  /\ phase = "parse_args" =>
       /\ At \in From(line, Start)
       /\ \A x \in From(line, Start) : Named(line, x) => x[1] \in seen \/ x \in From(line, At)
  /\ phase \in {"main", "done"} =>
       \A x \in From(line, Start) : Named(line, x) => x[1] \in seen
  /\ phase = "main" =>
       /\ At \in From(line, Start)
       /\ \A x \in From(line, Start) : Named(line, x) => x[1] \in processed \/ x \in From(line, At)
  /\ phase = "done" =>
       \A x \in From(line, Start) : Named(line, x) => x[1] \in processed
  /\ processed \subseteq seen

\* The places behind a place are the next one and those behind it.
LEMMA FromFacts ==
  ASSUME NEW l, Len(l) \in Nat, NEW x \in Places
  PROVE  /\ x \in From(l, x)
         /\ Closed(l, From(l, x))
         /\ x[1] > Len(l) => From(l, x) \subseteq {x}
         /\ x[1] <= Len(l) => /\ After(l, x) \in Places
                              /\ From(l, x) \subseteq {x} \cup From(l, After(l, x))
<1>0. \A y \in Places : /\ y[1] \in Nat /\ y[2] \in BOOLEAN
                        /\ After(l, y) \in Places
  <2>1. ASSUME NEW y \in Places
        PROVE  y[1] \in Nat /\ y[2] \in BOOLEAN /\ After(l, y) \in Places
    <3>1. y[1] \in Nat /\ y[2] \in BOOLEAN /\ y[1] + 1 \in Nat /\ y[1] + 2 \in Nat
      BY DEF Places
    <3>2. /\ <<y[1] + 1, y[2]>> \in Places /\ <<y[1] + 1, TRUE>> \in Places
          /\ <<y[1] + 2, FALSE>> \in Places /\ <<y[1] + 1, FALSE>> \in Places
      BY <3>1 DEF Places
    <3>. QED  BY <3>1, <3>2 DEF After
  <2>. QED  BY <2>1
<1>1. x \in From(l, x)
  BY DEF From
<1>2. \A z \in Places : Closed(l, From(l, z))
  <2>1. ASSUME NEW z \in Places, NEW y \in From(l, z), y[1] <= Len(l)
        PROVE  After(l, y) \in From(l, z)
    <3>1. y \in Places /\ After(l, y) \in Places
      BY <1>0 DEF From
    <3>2. ASSUME NEW C \in SUBSET Places, z \in C, Closed(l, C)
          PROVE  After(l, y) \in C
      <4>1. y \in C
        BY <3>2 DEF From
      <4>. QED  BY <2>1, <3>2, <4>1 DEF Closed
    <3>. QED  BY <3>1, <3>2 DEF From
  <2>. QED  BY <2>1 DEF Closed
<1>3. ASSUME x[1] > Len(l) PROVE From(l, x) \subseteq {x}
  <2>1. {x} \in SUBSET Places /\ x \in {x}
    OBVIOUS
  <2>2. Closed(l, {x})
    <3>1. ~(x[1] <= Len(l))
      BY <1>0, <1>3
    <3>. QED  BY <3>1 DEF Closed
  <2>. QED  BY <2>1, <2>2 DEF From
<1>4. ASSUME x[1] <= Len(l)
      PROVE  From(l, x) \subseteq {x} \cup From(l, After(l, x))
  <2>. DEFINE D == {x} \cup From(l, After(l, x))
  <2>1. After(l, x) \in Places
    BY <1>0
  <2>2. D \in SUBSET Places /\ x \in D
    BY DEF From
  <2>3. After(l, x) \in From(l, After(l, x))
    BY <2>1 DEF From
  <2>4. Closed(l, D)
    <3>1. ASSUME NEW y \in D, y[1] <= Len(l) PROVE After(l, y) \in D
      <4>1. CASE y = x
        BY <2>3, <4>1
      <4>2. CASE y \in From(l, After(l, x))
        BY <1>2, <2>1, <3>1, <4>2 DEF Closed
      <4>. QED  BY <3>1, <4>1, <4>2
    <3>. QED  BY <3>1 DEF Closed
  <2>. HIDE DEF D
  <2>5. \A y \in From(l, x) : y \in D
    BY <2>2, <2>4 DEF From
  <2>. QED  BY <2>5 DEF D
<1>. QED  BY <1>0, <1>1, <1>2, <1>3, <1>4

\* What a step of either loop does, as long as no cluster ends in S.
LEMMA LoopPlace ==
  ASSUME BasicInv, ~Args!EndsCluster
  PROVE  /\ At \in Places /\ Start \in Places /\ Len(line) \in Nat
         /\ i \in 1 .. End => line[i] # "-kS"
<1>1. Len(line) \in Nat /\ i \in Nat /\ end_of_opts \in BOOLEAN
  BY JobFacts DEF BasicInv, line
<1>2. At \in Places /\ Start \in Places
  BY <1>1 DEF At, Start, Places
<1>3. line \in Seq(STRING)
  BY JobsAssumption DEF BasicInv, line
<1>4. DOMAIN line = 1 .. End
  BY <1>3, LenProperties DEF End
<1>. QED  BY <1>1, <1>2, <1>4 DEF Args!EndsCluster, line

LEMMA ParsePlace ==
  ASSUME BasicInv, ~Args!EndsCluster, Args!Parse, job' = job
  PROVE  \/ /\ phase = "parse_args" /\ phase' = "parse_args" /\ i <= End
            /\ At' = After(line, At)
            /\ seen' = (IF Named(line, At) THEN seen \cup {i} ELSE seen)
         \/ /\ phase = "parse_args" /\ phase' = "main" /\ i > End
            /\ At' = Start /\ seen' = seen
         \/ phase = "parse_args" /\ phase' \in {"usage", "stdin"} /\ seen' = seen
<1>1. /\ Len(line) \in Nat /\ i \in Nat /\ i > 0 /\ end_of_opts \in BOOLEAN
      /\ i \in 1 .. End => line[i] # "-kS"
  BY LoopPlace, JobFacts DEF BasicInv, line
<1>2. /\ At[1] = i /\ At[2] = end_of_opts /\ At' = <<i', end_of_opts'>>
      /\ End = Len(line) /\ Args!a = line[i]
  BY DEF At, End, Args!a, line
<1>3. CASE Args!ParseName
  <2>1. phase = "parse_args" /\ i <= End /\ (line[i] = "name" \/ end_of_opts)
    BY <1>2, <1>3 DEF Args!ParseName, Args!Parsing, End, line
  <2>2. Named(line, At)
    BY <1>1, <1>2, <2>1 DEF Named
  <2>3. After(line, At) = <<i + 1, end_of_opts>>
    BY <1>1, <1>2, <2>1 DEF After
  <2>4. \/ phase' = "usage" /\ seen' = seen
        \/ phase' = phase /\ i' = i + 1 /\ end_of_opts' = end_of_opts /\ seen' = seen \cup {i}
    BY <1>3 DEF Args!ParseName
  <2>. QED  BY <1>2, <2>1, <2>2, <2>3, <2>4
<1>4. CASE Args!ParseStdin
  <2>1. phase = "parse_args" /\ i <= End /\ line[i] = "-" /\ end_of_opts = FALSE
    BY <1>1, <1>2, <1>4 DEF Args!ParseStdin, Args!Parsing, End, line
  <2>2. ~Named(line, At) /\ After(line, At) = <<i + 1, end_of_opts>>
    BY <1>2, <2>1 DEF Named, After
  <2>3. /\ seen' = seen
        /\ phase' = "usage" \/ (phase' = phase /\ i' = i + 1 /\ end_of_opts' = end_of_opts)
    BY <1>4 DEF Args!ParseStdin
  <2>. QED  BY <1>2, <2>1, <2>2, <2>3
<1>5. CASE Args!ParseOption
  <2>1. phase = "parse_args" /\ i <= End /\ line[i] \in {"--", "-k"} /\ end_of_opts = FALSE
    BY <1>1, <1>2, <1>5 DEF Args!ParseOption, Args!Parsing, End, line
  <2>2. /\ ~Named(line, At)
        /\ line[i] = "--" => After(line, At) = <<i + 1, TRUE>>
        /\ line[i] # "--" => After(line, At) = <<i + 1, FALSE>>
    BY <1>2, <2>1 DEF Named, After
  <2>3. seen' = seen /\ phase' = phase /\ i' = i + 1 /\ end_of_opts' = Args!EndsOptions
    BY <1>5 DEF Args!ParseOption
  <2>4. /\ line[i] = "--" => Args!EndsOptions = TRUE
        /\ line[i] # "--" => Args!EndsOptions = FALSE
    BY <1>2, <2>1 DEF Args!EndsOptions
  <2>5. At' = After(line, At)
    BY <1>2, <2>2, <2>3, <2>4
  <2>. QED  BY <2>1, <2>2, <2>3, <2>5
<1>6. CASE Args!ParseSuffix
  <2>1. phase = "parse_args" /\ i <= End /\ line[i] = "-S" /\ end_of_opts = FALSE
    BY <1>1, <1>2, <1>6 DEF Args!ParseSuffix, Args!Parsing, End, line
  <2>2. ~Named(line, At) /\ (i # End => After(line, At) = <<i + 2, FALSE>>)
    <3>1. i # End => At[1] < Len(line)
      BY <1>1, <1>2, <2>1
    <3>2. At[1] = i /\ At[2] = FALSE
      BY <1>2, <2>1
    <3>. QED  BY <2>1, <3>1, <3>2 DEF Named, After
  <2>3. /\ seen' = seen
        /\ \/ i = End /\ phase' = "usage"
           \/ i # End /\ phase' = phase /\ i' = i + 2 /\ end_of_opts' = end_of_opts
    BY <1>6 DEF Args!ParseSuffix, End, line
  <2>. QED  BY <1>2, <2>1, <2>2, <2>3
<1>7. CASE Args!Parsed
  BY <1>2, <1>7 DEF Args!Parsed, Start, End, line
<1>. QED  BY <1>3, <1>4, <1>5, <1>6, <1>7 DEF Args!Parse

LEMMA AgreeStep ==
  ASSUME BasicInv, ~Args!EndsCluster, AgreeInv, [Next]_vars
  PROVE  AgreeInv'
<1>. USE DEF AgreeInv
<1>1. /\ job' = job /\ line' = line
      /\ At \in Places /\ Start \in Places /\ Len(line) \in Nat /\ End = Len(line) /\ At[1] = i
      /\ i \in Nat /\ end_of_opts \in BOOLEAN
  BY LoopPlace
     DEF Next, Arguments, Operand, Probe, OpenStream, DecideOutpath, AddSuffix, Prepare, Load,
         Create, Write, CloseOutput, Finish, Fail, Exited, vars, line, End, At, BasicInv
<1>2. /\ At \in From(line, At) /\ Start \in From(line, Start) /\ Closed(line, From(line, Start))
      /\ i > End => From(line, At) \subseteq {At}
      /\ i <= End => From(line, At) \subseteq {At} \cup From(line, After(line, At))
  BY <1>1, FromFacts
<1>3. i <= End /\ At \in From(line, Start) => After(line, At) \in From(line, Start)
  BY <1>1, <1>2 DEF Closed
<1>4. \A x : Named(line, x) => x[1] <= End
  BY <1>1 DEF Named
<1>5. ASSUME Args!Parse PROVE AgreeInv'
  <2>1. processed' = processed /\ processed = {}
    <3>1. phase = "parse_args"
      BY <1>1, <1>5, ParsePlace
    <3>. QED  BY <1>5, <3>1
                 DEF Args!Parse, Args!ParseName, Args!ParseStdin, Args!ParseOption,
                     Args!ParseSuffix, Args!Parsed, BasicInv
  <2>2. CASE /\ phase = "parse_args" /\ phase' = "parse_args" /\ i <= End
             /\ At' = After(line, At)
             /\ seen' = (IF Named(line, At) THEN seen \cup {i} ELSE seen)
    <3>1. \A k \in seen' : \E x \in From(line, Start) : x[1] = k /\ Named(line, x)
      BY <1>1, <2>2
    <3>2. \A x \in From(line, Start) : Named(line, x) => x[1] \in seen' \/ x \in From(line, At')
      BY <1>1, <1>2, <2>2
    <3>. QED  BY <1>1, <1>3, <2>1, <2>2, <3>1, <3>2
  <2>3. CASE /\ phase = "parse_args" /\ phase' = "main" /\ i > End
             /\ At' = Start /\ seen' = seen
    <3>1. ~Named(line, At)
      BY <1>1, <1>4, <2>3
    <3>2. \A x \in From(line, Start) : Named(line, x) => x[1] \in seen
      BY <1>2, <2>3, <3>1
    <3>. QED  BY <1>1, <1>2, <2>1, <2>3, <3>2
  <2>4. CASE phase = "parse_args" /\ phase' \in {"usage", "stdin"} /\ seen' = seen
    BY <1>1, <2>1, <2>4
  <2>. QED  BY <1>1, <1>5, <2>2, <2>3, <2>4, ParsePlace
<1>6. ASSUME Args!SkipEnd \/ Args!SkipOption PROVE AgreeInv'
  <2>1. /\ phase = "main" /\ phase' = "main" /\ i <= End /\ end_of_opts = FALSE
        /\ line[i] \in {"--", "-", "-S", "-kS", "-k"}
        /\ seen' = seen /\ processed' = processed
    BY <1>1, <1>6 DEF Args!SkipEnd, Args!SkipOption, Args!InMain, Args!a, line, End
  <2>2. line[i] # "-kS"
    <3>1. i > 0
      BY DEF BasicInv
    <3>2. i \in 1 .. End
      BY <1>1, <2>1, <3>1
    <3>. QED  BY <3>2, LoopPlace
  <2>3. At' = After(line, At) /\ ~Named(line, At)
    <3>1. At[1] = i /\ At[2] = FALSE /\ At' = <<i', end_of_opts'>>
      BY <2>1 DEF At
    <3>2. ~Named(line, At)
      BY <2>1, <3>1 DEF Named
    <3>3. CASE Args!SkipEnd
      <4>1. line[i] = "--" /\ i' = i + 1 /\ end_of_opts' = TRUE
        BY <3>3 DEF Args!SkipEnd, Args!a, line
      <4>. QED  BY <2>1, <3>1, <3>2, <4>1 DEF After
    <3>4. CASE Args!SkipOption
      <4>1. /\ line[i] \in {"-", "-S", "-k"} /\ end_of_opts' = FALSE
            /\ i' = IF line[i] = "-S" /\ i < End THEN i + 2 ELSE i + 1
        BY <2>1, <2>2, <3>4 DEF Args!SkipOption, Args!a, line, End
      <4>. QED  BY <1>1, <2>1, <3>1, <3>2, <4>1 DEF After
    <3>. QED  BY <1>6, <3>2, <3>3, <3>4
  <2>4. \A x \in From(line, Start) : Named(line, x) => x[1] \in processed \/ x \in From(line, At')
    BY <1>2, <2>1, <2>3
  <2>. QED  BY <1>1, <1>3, <2>1, <2>3, <2>4
<1>7. ASSUME Args!ProcessOne PROVE AgreeInv'
  <2>1. /\ phase = "main" /\ phase' = "main" /\ i <= End /\ (line[i] = "name" \/ end_of_opts)
        /\ seen' = seen /\ processed' = processed \cup {i}
        /\ i' = i + 1 /\ end_of_opts' = end_of_opts
    BY <1>7 DEF Args!ProcessOne, Args!InMain, Args!a, line, End
  <2>2. At' = After(line, At) /\ Named(line, At)
    <3>1. At[1] = i /\ At[2] = end_of_opts /\ At' = <<i + 1, end_of_opts>>
      BY <2>1 DEF At
    <3>. QED  BY <1>1, <2>1, <3>1 DEF After, Named
  <2>3. i \in seen
    BY <1>1, <2>1, <2>2
  <2>4. \A x \in From(line, Start) : Named(line, x) => x[1] \in processed' \/ x \in From(line, At')
    BY <1>1, <1>2, <2>1, <2>2
  <2>. QED  BY <1>1, <1>3, <2>1, <2>2, <2>3, <2>4
<1>8. ASSUME Args!Finished PROVE AgreeInv'
  <2>1. /\ phase = "main" /\ phase' = "done" /\ i > End
        /\ UNCHANGED <<seen, processed>>
    BY <1>8 DEF Args!Finished, line, End
  <2>2. ~Named(line, At)
    BY <1>1, <1>4, <2>1
  <2>3. \A x \in From(line, Start) : Named(line, x) => x[1] \in processed
    BY <1>2, <2>1, <2>2
  <2>. QED  BY <1>1, <2>1, <2>3
<1>9. ASSUME UNCHANGED <<phase, i, end_of_opts, seen, processed>> PROVE AgreeInv'
  <2>1. At' = At
    BY <1>9 DEF At
  <2>. QED  BY <1>1, <1>9, <2>1
<1>10. CASE Arguments
  BY <1>5, <1>6, <1>8, <1>10 DEF Arguments
<1>11. CASE Operand
  BY <1>7, <1>11 DEF Operand
<1>12. CASE Steps \/ Exited \/ UNCHANGED vars
  BY <1>9, <1>12, StepsLeaveArgs DEF Exited, vars, args
<1>. QED  BY <1>10, <1>11, <1>12 DEF Next, Steps

\* The loop in main gives process_one exactly the arguments that parse_args has
\* taken for names, on command lines of any length, as long as no cluster of
\* options ends in S.
THEOREM OperandsAgree == Spec => []LoopsAgree
<1>. DEFINE Inv == BasicInv /\ (~Args!EndsCluster => AgreeInv)
<1>1. Init => Inv
  <2>1. ASSUME Init PROVE AgreeInv
    <3>1. phase = "parse_args" /\ seen = {} /\ processed = {} /\ At = Start
      BY <2>1 DEF Init, Args!Init, At, Start
    <3>2. Start \in Places /\ Len(line) \in Nat
      BY <2>1, BasicInit, JobFacts DEF BasicInv, Start, Places, line
    <3>3. Start \in From(line, Start)
      BY <3>2, FromFacts
    <3>. QED  BY <3>1, <3>3 DEF AgreeInv
  <2>. QED  BY <2>1, BasicInit
<1>2. Inv /\ [Next]_vars => Inv'
  <2>1. ASSUME [Next]_vars PROVE job' = job
    BY <2>1 DEF Next, Arguments, Operand, Probe, OpenStream, DecideOutpath, AddSuffix, Prepare,
                Load, Create, Write, CloseOutput, Finish, Fail, Exited, vars
  <2>2. ASSUME [Next]_vars PROVE Args!EndsCluster' = Args!EndsCluster
    BY <2>1, <2>2 DEF Args!EndsCluster
  <2>. QED  BY <2>2, BasicStep, AgreeStep
<1>3. Inv => LoopsAgree
  <2>1. ASSUME AgreeInv PROVE processed \subseteq seen /\ (phase = "done" => processed = seen)
    BY <2>1 DEF AgreeInv
  <2>. QED  BY <2>1 DEF LoopsAgree
<1>. QED  BY <1>1, <1>2, <1>3, PTL DEF Spec
-----------------------------------------------------------------------------
(* The stream of an operand. *)

\* The header could be read, and neither it nor the operand gives a name.
Nameless == decompress /\ ~write_stdout /\ Len(src) # 1 /\ out = NoName /\ cur[2] = 0

StreamInv ==
  /\ InTask => strm \in {"none", "open", "freed"} /\ (strm = "freed" => pc = "fail" /\ Nameless)
  /\ ~InTask => strm \in {"none", "freed", "twice"} /\ (strm = "twice" => Nameless)
  /\ pc \in {"probe", "stream"} => strm = "none"
  /\ pc \in {"probe", "stream", "decide"} => out = NoName
  /\ pc \in {"stream", "decide"} => decompress
  /\ pc = "decide" => ~write_stdout

\* The operand in hand is one of the command line.
LEMMA CurFacts ==
  ASSUME BasicInv, InTask
  PROVE  /\ cur \in Names /\ cur[1] \in Bases /\ cur[2] \in 0 .. Depth - 1
         /\ cur = <<cur[1], cur[2]>>
<1>1. job \in Jobs /\ i - 1 \in Operands(job) /\ cur = job.operands[i - 1]
  BY DEF BasicInv
<1>2. i - 1 \in 1 .. Len(job.line)
  BY <1>1 DEF Operands
<1>3. cur \in Names /\ cur[1] \in Bases /\ cur[2] \in 0 .. Depth - 1
  BY <1>1, <1>2, JobFacts
<1>4. cur = <<cur[1], cur[2]>>
  BY <1>3 DEF Names
<1>. QED  BY <1>3, <1>4

\* A stream that was opened for an operand is released when its turn ends, for
\* all operands and headers; and it is released once, unless decide_outpath has
\* come to the name of an operand without a suffix and released it already.
THEOREM StreamsReleased == Spec => []ReleasedOnce
<1>1. Init => BasicInv /\ StreamInv
  <2>1. Init => StreamInv
    BY DEF Init, StreamInv, InTask
  <2>. QED  BY <2>1, BasicInit
<1>2. ASSUME BasicInv, StreamInv, [Next]_vars PROVE StreamInv'
  <2>. USE <1>2 DEF StreamInv
  <2>1. CASE Arguments
    <3>1. /\ pc = "next" /\ pc' \in {"next", "exit"} /\ ~InTask /\ ~InTask'
          /\ UNCHANGED <<job, cur, out, src, strm>>
      BY <2>1 DEF Arguments, task, InTask
    <3>. QED  BY <3>1 DEF Nameless, decompress, write_stdout
  <2>2. CASE Operand
    BY <2>2 DEF Operand, InTask
  <2>3. CASE Probe
    <3>1. /\ pc = "probe" /\ InTask /\ UNCHANGED <<job, out, strm>>
          /\ pc' = "next" \/ (pc' = "stream" /\ decompress) \/ pc' = "name"
      BY <2>3 DEF Probe, Return, InTask
    <3>. QED  BY <3>1 DEF InTask, decompress, write_stdout
  <2>4. CASE OpenStream
    <3>1. /\ pc = "stream" /\ InTask /\ UNCHANGED <<job, out>>
          /\ \/ pc' = "next" /\ strm' = strm
             \/ strm' = "open" /\ (pc' = "create" \/ (pc' = "decide" /\ ~write_stdout))
      BY <2>4 DEF OpenStream, Return, InTask
    <3>. QED  BY <3>1 DEF InTask, decompress, write_stdout
  <2>5. CASE DecideOutpath
    <3>1. /\ pc = "decide" /\ decompress /\ ~write_stdout /\ InTask /\ InTask'
          /\ out = NoName /\ strm \in {"none", "open"} /\ UNCHANGED <<job, cur, src>>
      BY <2>5 DEF DecideOutpath, InTask
    <3>2. \/ strm' = strm /\ pc' \in {"fail", "prepare"}
          \/ strm' = "freed" /\ pc' = "fail" /\ out' = out /\ ~(cur[2] > 0) /\ Len(src) # 1
      BY <2>5 DEF DecideOutpath, HeaderRead
    <3>3. ~(cur[2] > 0) => cur[2] = 0
      BY <3>1, CurFacts, DepthAssumption
    <3>. QED  BY <3>1, <3>2, <3>3 DEF Nameless, InTask, decompress, write_stdout
  <2>6. CASE AddSuffix \/ Prepare \/ Load \/ Create \/ Write \/ CloseOutput \/ Finish
    <3>1. UNCHANGED <<job, strm>>
      BY <2>6 DEF AddSuffix, Prepare, Load, Create, Write, CloseOutput, Finish, task
    <3>2. /\ InTask /\ pc # "fail"
          /\ pc' \in {"prepare", "create", "load", "write", "close", "finish", "fail"}
      BY <2>6 DEF AddSuffix, Prepare, Load, Create, Write, CloseOutput, Finish, InTask
    <3>. QED  BY <3>1, <3>2 DEF InTask
  <2>7. CASE Fail
    <3>1. /\ pc = "fail" /\ InTask /\ pc' = "next" /\ strm' = Release
          /\ UNCHANGED <<job, cur, out, src>>
      BY <2>7 DEF Fail, Return, InTask
    <3>. QED  BY <3>1 DEF Release, InTask, Nameless, decompress, write_stdout
  <2>8. CASE Exited \/ UNCHANGED vars
    <3>1. UNCHANGED <<job, pc, cur, out, src, strm>>
      BY <2>8 DEF Exited, vars, task
    <3>. QED  BY <3>1 DEF InTask, Nameless, decompress, write_stdout
  <2>. QED  BY <2>1, <2>2, <2>3, <2>4, <2>5, <2>6, <2>7, <2>8 DEF Next
<1>3. StreamInv => ReleasedOnce
  BY DEF StreamInv, ReleasedOnce, InTask, Nameless
<1>. QED  BY <1>1, <1>2, <1>3, BasicStep, PTL DEF Spec
-----------------------------------------------------------------------------
(* The files. *)

Datum == Texts \cup Layers

\* What a compression may have made of d0, and a decompression: layers around
\* it, or layers less, none of them of a file that is cut.
Grown(d, d0) ==
  /\ Len(d0) <= Len(d)
  /\ \A k \in 1 .. Len(d0) : d[k] = d0[k]
  /\ \A k \in Len(d0) + 1 .. Len(d) : d[k] = "gz"
Shrunk(d, d0) ==
  /\ Len(d) <= Len(d0)
  /\ \A k \in 1 .. Len(d) : d[k] = d0[k]
  /\ \A k \in Len(d) + 1 .. Len(d0) : d0[k] # "cut"
Kept(d, d0) == IF decompress THEN Shrunk(d, d0) ELSE Grown(d, d0)

\* while an output is being written it is nobody's refuge
Busy == ~write_stdout /\ pc \in {"load", "create", "write", "close", "finish"}

\* what file n held is in m
Refuge(n, m) ==
  /\ m \in Names /\ dir[m].type = "file"
  /\ Kept(dir[m].data, job.dir[n].data)
  /\ Busy => m # out

KeptInv == \A n \in Names : job.dir[n].type = "file" =>
             \/ \E m \in Names : Refuge(n, m)
             \/ IsIn(n, over) \/ IsIn(n, lost)

DirInv ==
  /\ dir = [n \in Names |-> dir[n]]
  /\ \A n \in Names : dir[n].data \in Seq(Datum)
  /\ src \in Seq(Datum) /\ made \in Seq(Datum)

\* the output is what is to be made of the input, as far as one can tell
Good == fault = "none" /\ (ret = 0 \/ (decompress /\ ret = 1))
Made == IF decompress THEN Last(src) # "cut" /\ made = Front(src)
                      ELSE made = Append(src, "gz")

OutInv ==
  /\ pc \in {"stream", "decide"} => decompress
  /\ pc \in {"name", "load"} => ~decompress
  /\ pc \in {"decide", "prepare"} => ~write_stdout
  /\ pc = "prepare" \/ Busy => out \in Names /\ (~decompress => out # cur)
  /\ pc \in {"probe", "stream", "decide", "name", "prepare", "load", "create"} => ret = 1
  /\ pc = "close" /\ Good => Made
  /\ pc = "finish" /\ ~write_stdout /\ Good => Made /\ dir[out] = File(made)

\* what was read is still there, unless the output has taken its place
SrcInv ==
  /\ pc = "decide" => src = dir[cur].data
  /\ pc \in {"prepare", "create"} /\ decompress /\ ~write_stdout /\ out # cur =>
       src = dir[cur].data
  /\ pc = "create" /\ ~fast /\ ~decompress /\ ~write_stdout => src = dir[cur].data
  /\ pc \in {"write", "close"} /\ ~write_stdout /\ out # cur => src = dir[cur].data
  /\ pc = "finish" /\ ~write_stdout /\ Good /\ out # cur => src = dir[cur].data

OverInv == over # {} => force \/ "tty" \in job.options

FileInv == DirInv /\ OutInv /\ SrcInv /\ OverInv /\ KeptInv

\* A layer more, and a layer less.
LEMMA KeptOneMore ==
  ASSUME NEW d \in Seq(Datum), NEW d0 \in Seq(Datum), Grown(d, d0)
  PROVE  Grown(Append(d, "gz"), d0)
<1>1. Len(d) \in Nat /\ Len(d0) \in Nat /\ Len(d0) <= Len(d)
  BY LenProperties DEF Grown
<1>2. "gz" \in Datum
  BY DEF Datum, Layers
<1>3. /\ Len(Append(d, "gz")) = Len(d) + 1
      /\ \A k \in 1 .. Len(d) : Append(d, "gz")[k] = d[k]
      /\ Append(d, "gz")[Len(d) + 1] = "gz"
  BY <1>2, AppendProperties
<1>4. ASSUME NEW k \in 1 .. Len(d0) PROVE Append(d, "gz")[k] = d0[k]
  BY <1>1, <1>3 DEF Grown
<1>5. ASSUME NEW k \in Len(d0) + 1 .. Len(d) + 1 PROVE Append(d, "gz")[k] = "gz"
  <2>1. CASE k = Len(d) + 1
    BY <1>3, <2>1
  <2>2. CASE k # Len(d) + 1
    <3>1. k \in Len(d0) + 1 .. Len(d) /\ k \in 1 .. Len(d)
      BY <1>1, <2>2
    <3>. QED  BY <1>3, <3>1 DEF Grown
  <2>. QED  BY <2>1, <2>2
<1>. QED  BY <1>1, <1>3, <1>4, <1>5 DEF Grown

LEMMA KeptOneLess ==
  ASSUME NEW d \in Seq(Datum), NEW d0 \in Seq(Datum), Shrunk(d, d0), Last(d) # "cut"
  PROVE  Shrunk(Front(d), d0)
<1>1. Len(d) \in Nat /\ Len(d0) \in Nat /\ Len(d) <= Len(d0) /\ d[Len(d)] # "cut"
  BY LenProperties DEF Shrunk, Last
<1>2. /\ Len(Front(d)) = (IF 1 <= Len(d) - 1 THEN Len(d) - 1 ELSE 0)
      /\ \A k \in 1 .. Len(d) - 1 : Front(d)[k] = d[k]
  <2>1. 1 \in Int /\ Len(d) - 1 \in Int /\ \A k \in 1 .. Len(d) - 1 : d[k] \in Datum
    BY <1>1, ElementOfSeq
  <2>. QED  BY <1>1, <2>1, SubSeqProperties DEF Front
<1>3. ASSUME NEW k \in 1 .. Len(Front(d)) PROVE Front(d)[k] = d0[k]
  <2>1. k \in 1 .. Len(d) - 1 /\ k \in 1 .. Len(d)
    BY <1>1, <1>2
  <2>. QED  BY <1>2, <2>1 DEF Shrunk
<1>4. ASSUME NEW k \in Len(Front(d)) + 1 .. Len(d0) PROVE d0[k] # "cut"
  <2>1. CASE k = Len(d)
    <3>1. k \in 1 .. Len(d)
      BY <1>1, <1>2, <2>1
    <3>. QED  BY <1>1, <2>1, <3>1 DEF Shrunk
  <2>2. CASE k # Len(d)
    <3>1. k \in Len(d) + 1 .. Len(d0)
      BY <1>1, <1>2, <2>2
    <3>. QED  BY <3>1 DEF Shrunk
  <2>. QED  BY <2>1, <2>2
<1>. QED  BY <1>1, <1>2, <1>3, <1>4 DEF Shrunk

\* What is kept in this sense is what Holds asks for.
LEMMA KeptHolds ==
  ASSUME NEW d \in Seq(Datum), NEW d0 \in Seq(Datum), Kept(d, d0)
  PROVE  Holds(d, d0)
<1>1. /\ Len(d) \in Nat /\ Len(d0) \in Nat /\ DOMAIN d = 1 .. Len(d) /\ DOMAIN d0 = 1 .. Len(d0)
  BY LenProperties
<1>2. CASE decompress
  <2>1. /\ Len(d) <= Len(d0) /\ \A k \in 1 .. Len(d) : d[k] = d0[k]
        /\ \A k \in Len(d) + 1 .. Len(d0) : d0[k] # "cut"
    BY <1>2 DEF Kept, Shrunk
  <2>2. IsPrefix(d, d0)
    BY <1>1, <2>1 DEF IsPrefix
  <2>. QED  BY <2>1, <2>2 DEF Holds
<1>3. CASE ~decompress
  <2>1. /\ Len(d0) <= Len(d) /\ \A k \in 1 .. Len(d0) : d0[k] = d[k]
        /\ \A k \in Len(d0) + 1 .. Len(d) : d[k] = "gz"
    BY <1>3 DEF Kept, Grown
  <2>2. IsPrefix(d0, d)
    BY <1>1, <2>1 DEF IsPrefix
  <2>. QED  BY <2>1, <2>2 DEF Holds
<1>. QED  BY <1>2, <1>3

LEMMA RefugeHolds ==
  ASSUME BasicInv, DirInv, NEW n \in Names, NEW m \in Names, Refuge(n, m)
  PROVE  Holds(dir[m].data, job.dir[n].data)
<1>1. job.dir[n].data \in Seq(Datum)
  BY JobFacts DEF BasicInv, IsEntry, Datum
<1>2. dir[m].data \in Seq(Datum) /\ Kept(dir[m].data, job.dir[n].data)
  BY DEF DirInv, Refuge
<1>. QED  BY <1>1, <1>2, KeptHolds

\* What a step has to do for a file: leave its refuge alone, or give it another.
LEMMA RefugeStays ==
  ASSUME KeptInv, job' = job, over \subseteq over', lost \subseteq lost',
         \A n, m \in Names : job.dir[n].type = "file" /\ Refuge(n, m) =>
           \/ dir'[m] = dir[m] /\ (Busy' => m # out')
           \/ \E l \in Names : Refuge(n, l)'
           \/ IsIn(n, over') \/ IsIn(n, lost')
  PROVE  KeptInv'
<1>1. ASSUME NEW n \in Names, job.dir[n].type = "file"
      PROVE  (\E m \in Names : Refuge(n, m)') \/ IsIn(n, over') \/ IsIn(n, lost')
  <2>1. CASE IsIn(n, over) \/ IsIn(n, lost)
    BY <2>1 DEF IsIn
  <2>2. CASE \E m \in Names : Refuge(n, m)
    <3>1. PICK m \in Names : Refuge(n, m)
      BY <2>2
    <3>2. CASE dir'[m] = dir[m] /\ (Busy' => m # out')
      <4>1. Refuge(n, m)'
        BY <3>1, <3>2 DEF Refuge, Kept, decompress
      <4>. QED  BY <4>1
    <3>. QED  BY <1>1, <3>1, <3>2
  <2>. QED  BY <1>1, <2>1, <2>2 DEF KeptInv
<1>2. \A n \in Names : /\ IsIn(n, over)' <=> IsIn(n, over')
                       /\ IsIn(n, lost)' <=> IsIn(n, lost')
  BY DEF IsIn
<1>. QED  BY <1>1, <1>2 DEF KeptInv

\* The options do not change.
LEMMA OptionsStay ==
  ASSUME job' = job
  PROVE  UNCHANGED <<force, keep, write_stdout, decompress, fast, closefails, Removes, Datum>>
BY DEF force, keep, write_stdout, decompress, fast, closefails, Removes

\* Steps that touch no file and write to none anew.
LEMMA QuietStep ==
  ASSUME BasicInv, FileInv, Arguments \/ Operand \/ Probe \/ OpenStream \/ DecideOutpath
                            \/ AddSuffix \/ Exited \/ UNCHANGED vars
  PROVE  FileInv'
<1>1. job' = job /\ dir' = dir /\ over' = over /\ lost' = lost /\ job \in Jobs
  BY DEF Arguments, Operand, Probe, OpenStream, DecideOutpath, AddSuffix, Exited, vars, gone,
         BasicInv
<1>2. UNCHANGED <<force, keep, write_stdout, decompress, fast, closefails, Removes, Datum>>
  BY <1>1, OptionsStay
<1>3. Busy' => Busy /\ out' = out
  BY <1>2 DEF Arguments, Operand, Probe, OpenStream, DecideOutpath, AddSuffix, Exited, Return, Busy,
              vars, task, write_stdout
<1>4. KeptInv'
  BY <1>1, <1>3, RefugeStays DEF FileInv, Refuge
<1>5. DirInv'
  <2>1. \A n \in Names : dir[n].data \in Seq(Datum)
    BY DEF FileInv, DirInv
  <2>2. src' \in Seq(Datum) /\ made' \in Seq(Datum)
    <3>1. CASE Arguments \/ Exited \/ UNCHANGED vars
      BY <3>1 DEF Arguments, Exited, vars, task, output, FileInv, DirInv
    <3>2. CASE Operand
      <4>1. <<>> \in Seq(Datum)
        OBVIOUS
      <4>. QED  BY <3>2, <4>1 DEF Operand
    <3>3. CASE OpenStream
      <4>1. cur \in Names
        BY <3>3, CurFacts DEF OpenStream, InTask
      <4>. QED  BY <2>1, <3>3, <4>1 DEF OpenStream, output, FileInv, DirInv
    <3>4. CASE Probe \/ DecideOutpath \/ AddSuffix
      BY <3>4 DEF Probe, DecideOutpath, AddSuffix, output, FileInv, DirInv
    <3>. QED  BY <3>1, <3>2, <3>3, <3>4
  <2>. QED  BY <1>1, <1>2, <2>1, <2>2 DEF FileInv, DirInv
<1>6. OverInv'
  BY <1>1, <1>2 DEF FileInv, OverInv
<1>7. OutInv' /\ SrcInv'
  <2>1. CASE Arguments
    <3>1. pc' \in {"next", "exit"}
      BY <2>1 DEF Arguments
    <3>. QED  BY <3>1 DEF OutInv, SrcInv, Busy
  <2>2. CASE Operand
    <3>1. pc' = "probe" /\ ret' = 1
      BY <2>2 DEF Operand
    <3>. QED  BY <3>1 DEF OutInv, SrcInv, Busy
  <2>3. CASE Probe
    <3>1. pc = "probe" /\ ret = 1
      BY <2>3 DEF Probe, FileInv, OutInv
    <3>2. \/ pc' = "next"
          \/ pc' = "stream" /\ decompress /\ ret' = ret
          \/ pc' = "name" /\ ~decompress /\ ret' = ret
      BY <2>3 DEF Probe, Return
    <3>. QED  BY <1>2, <3>1, <3>2 DEF OutInv, SrcInv, Busy
  <2>4. CASE OpenStream
    <3>1. pc = "stream" /\ decompress /\ ret = 1
      BY <2>4 DEF OpenStream, FileInv, OutInv
    <3>2. \/ pc' = "next"
          \/ pc' = "create" /\ write_stdout /\ ret' = ret
          \/ pc' = "decide" /\ ~write_stdout /\ src' = dir[cur].data
             /\ UNCHANGED <<cur, ret>>
      BY <2>4 DEF OpenStream, Return
    <3>. QED  BY <1>1, <1>2, <3>1, <3>2 DEF OutInv, SrcInv, Busy
  <2>5. CASE DecideOutpath
    <3>1. /\ pc = "decide" /\ decompress /\ ~write_stdout /\ src = dir[cur].data /\ ret = 1
          /\ InTask
      BY <2>5 DEF DecideOutpath, FileInv, OutInv, SrcInv, InTask
    <3>2. /\ UNCHANGED <<cur, src, ret>>
          /\ pc' = "fail" \/ (pc' = "prepare" /\ out' \in Names)
      <4>1. cur[1] \in Bases /\ cur[2] \in 0 .. Depth - 1 /\ Depth \in Nat
        BY <3>1, CurFacts, DepthAssumption
      <4>2. cur[2] > 0 => <<cur[1], cur[2] - 1>> \in Names
        BY <4>1 DEF Names
      <4>3. job.hdrname # NoName => job.hdrname \in Names
        BY <1>1, JobFacts
      <4>. QED  BY <2>5, <4>2, <4>3 DEF DecideOutpath
    <3>. QED  BY <1>1, <1>2, <3>1, <3>2 DEF OutInv, SrcInv, Busy
  <2>6. CASE AddSuffix
    <3>1. pc = "name" /\ UNCHANGED <<cur, ret>> /\ ret = 1 /\ ~decompress /\ InTask
      BY <2>6 DEF AddSuffix, FileInv, OutInv, InTask
    <3>2. \/ write_stdout /\ pc' = (IF fast THEN "create" ELSE "load")
          \/ ~write_stdout /\ pc' = "prepare" /\ out' = <<cur[1], cur[2] + 1>>
      BY <2>6 DEF AddSuffix
    <3>3. <<cur[1], cur[2] + 1>> \in Names /\ <<cur[1], cur[2] + 1>> # cur
      <4>1. cur[1] \in Bases /\ cur[2] \in 0 .. Depth - 1 /\ Depth \in Nat
        BY <3>1, CurFacts, DepthAssumption
      <4>2. cur[2] + 1 \in 0 .. Depth /\ cur[2] + 1 # cur[2]
        BY <4>1
      <4>. QED  BY <4>1, <4>2 DEF Names
    <3>. QED  BY <1>1, <1>2, <3>1, <3>2, <3>3 DEF OutInv, SrcInv, Busy
  <2>7. CASE Exited \/ UNCHANGED vars
    <3>1. UNCHANGED <<pc, cur, out, src, made, ret, fault>>
      BY <2>7 DEF Exited, vars, task, output
    <3>2. Good' = Good /\ Made' = Made /\ File(made)' = File(made) /\ Busy' = Busy
      BY <1>2, <3>1 DEF Good, Made, File, Busy
    <3>. QED  BY <1>1, <1>2, <3>1, <3>2 DEF FileInv, OutInv, SrcInv
  <2>. QED  BY <2>1, <2>2, <2>3, <2>4, <2>5, <2>6, <2>7
<1>. QED  BY <1>4, <1>5, <1>6, <1>7 DEF FileInv

\* The output that is removed with consent may be a refuge; then what it held is
\* in over or in lost.
LEMMA PrepareStep ==
  ASSUME BasicInv, FileInv, Prepare
  PROVE  FileInv'
<1>1. /\ pc = "prepare" /\ pc' \in {"create", "load", "fail"} /\ InTask /\ ret = 1
      /\ UNCHANGED <<job, cur, out, src, made, ret>>
      /\ ~write_stdout /\ out \in Names /\ (~decompress => out # cur)
      /\ pc' = "load" => ~fast /\ ~decompress
      /\ pc' = "create" => decompress \/ fast
  BY DEF Prepare, InTask, task, output, FileInv, OutInv
<1>2. UNCHANGED <<force, keep, write_stdout, decompress, fast, closefails, Removes, Datum>>
  BY <1>1, OptionsStay
<1>3. \/ dir' = dir /\ over' = over /\ lost' = lost /\ (pc' = "fail" \/ dir[out].type = "none")
      \/ /\ dir' = [dir EXCEPT ![out] = Absent]
         /\ force \/ "tty" \in job.options
         /\ \/ over' = over \cup {dir[out].data} /\ lost' = lost
            \/ lost' = lost \cup {dir[out].data} /\ over' = over
  BY DEF Prepare, Agrees, gone
<1>4. dir = [n \in Names |-> dir[n]] /\ \A n \in Names : dir[n].data \in Seq(Datum)
  BY DEF FileInv, DirInv
<1>5. \A n \in Names : n # out => dir'[n] = dir[n]
  BY <1>1, <1>3, <1>4
<1>6. KeptInv'
  <2>1. ASSUME NEW n \in Names, NEW m \in Names, Refuge(n, m)
        PROVE  \/ dir'[m] = dir[m] /\ (Busy' => m # out')
               \/ IsIn(n, over') \/ IsIn(n, lost')
    <3>1. CASE m # out
      BY <1>1, <1>5, <3>1
    <3>2. CASE m = out /\ dir' = dir /\ (pc' = "fail" \/ dir[out].type = "none")
      <4>1. pc' = "fail"
        BY <2>1, <3>2 DEF Refuge
      <4>. QED  BY <3>2, <4>1 DEF Busy
    <3>3. CASE m = out /\ (dir[out].data \in over' \/ dir[out].data \in lost')
      BY <2>1, <3>3, RefugeHolds DEF FileInv, IsIn
    <3>. QED  BY <1>3, <3>1, <3>2, <3>3
  <2>. QED  BY <1>1, <1>3, <2>1, RefugeStays DEF FileInv
<1>7. DirInv'
  <2>1. Absent.data \in Seq(Datum)
    BY DEF Absent
  <2>2. \A n \in Names : dir'[n] = dir[n] \/ dir'[n] = Absent
    BY <1>3, <1>4
  <2>3. \A n \in Names : dir'[n].data \in Seq(Datum)
    BY <1>4, <2>1, <2>2
  <2>4. dir' = [n \in Names |-> dir'[n]]
    BY <1>3, <1>4
  <2>. QED  BY <1>1, <1>2, <2>3, <2>4 DEF FileInv, DirInv
<1>8. SrcInv'
  <2>1. out # cur => dir'[cur] = dir[cur]
    BY <1>1, <1>5, CurFacts
  <2>. QED  BY <1>1, <1>2, <2>1 DEF FileInv, SrcInv
<1>9. OutInv' /\ OverInv'
  BY <1>1, <1>2, <1>3 DEF FileInv, OutInv, OverInv, Busy
<1>. QED  BY <1>6, <1>7, <1>8, <1>9 DEF FileInv

\* The content that is read, and what is made of it.
LEMMA Layered ==
  ASSUME NEW d \in Seq(Datum)
  PROVE  /\ Part(d) \in Seq(Datum) /\ Append(d, "gz") \in Seq(Datum)
         /\ Front(d) \in Seq(Datum)
         /\ \A e \in Seq(Datum) : File(e).type = "file" /\ File(e).data = e
<1>1. "cut" \in Datum /\ "gz" \in Datum
  BY DEF Datum, Layers
<1>2. Part(d) \in Seq(Datum) /\ Append(d, "gz") \in Seq(Datum)
  BY <1>1, AppendProperties DEF Part
<1>3. Front(d) \in Seq(Datum)
  <2>1. Len(d) - 1 \in Int /\ \A k \in 1 .. Len(d) - 1 : d[k] \in Datum
    BY LenProperties, ElementOfSeq
  <2>. QED  BY <2>1, SubSeqProperties DEF Front
<1>. QED  BY <1>2, <1>3 DEF File

\* What is put out is read from the input, and only as much as ret and fault say.
LEMMA WriteFacts ==
  ASSUME BasicInv, FileInv, Write
  PROVE  made' \in Seq(Datum) /\ (Good' => Made')
<1>1. job' = job /\ src' = src /\ src \in Seq(Datum) /\ decompress' = decompress
  BY OptionsStay DEF Write, FileInv, DirInv
<1>2. PICK w \in Written \cup (IF IOErrors THEN {<<Part(src), -1>>} ELSE {}) :
        made' = w[1] /\ ret' = w[2] /\ fault' = (IF w \in NoMemory THEN "malloc" ELSE "none")
  BY DEF Write
<1>3. CASE w = <<Part(src), -1>> \/ w = <<Part(src), -3>>
  BY <1>1, <1>2, <1>3, Layered DEF Good
<1>4. CASE w \in NoMemory
  BY <1>1, <1>2, <1>4, Layered DEF Good, NoMemory
<1>5. CASE ~decompress /\ w = <<Append(src, "gz"), 0>>
  BY <1>1, <1>2, <1>5, Layered DEF Made
<1>6. CASE decompress /\ Last(src) # "cut" /\ w[1] = Front(src)
  BY <1>1, <1>2, <1>6, Layered DEF Made, Last, Front
<1>. QED  BY <1>2, <1>3, <1>4, <1>5, <1>6 DEF Written, Expanded

\* Steps that change nothing but what the output holds.
LEMMA WriteStep ==
  ASSUME BasicInv, FileInv, Load \/ Create \/ Write \/ CloseOutput
  PROVE  FileInv'
<1>1. /\ pc \in {"load", "create", "write", "close"} /\ InTask
      /\ UNCHANGED <<job, cur, out, strm, over, lost>>
      /\ pc' \in {"load", "create", "write", "close", "finish"}
      /\ ~write_stdout => out \in Names /\ (~decompress => out # cur)
  BY DEF Load, Create, Write, CloseOutput, InTask, gone, FileInv, OutInv, Busy
<1>2. UNCHANGED <<force, keep, write_stdout, decompress, fast, closefails, Removes, Datum>>
  BY <1>1, OptionsStay
<1>3. /\ src \in Seq(Datum) /\ made \in Seq(Datum) /\ cur \in Names
      /\ dir = [n \in Names |-> dir[n]] /\ \A n \in Names : dir[n].data \in Seq(Datum)
  BY <1>1, CurFacts DEF FileInv, DirInv
<1>4. (Busy' <=> ~write_stdout) /\ (Busy <=> ~write_stdout)
  BY <1>1, <1>2 DEF Busy
\* what is written, if anything
<1>5. PICK d \in Seq(Datum) : \/ dir' = dir
                              \/ ~write_stdout /\ dir' = [dir EXCEPT ![out] = File(d)]
  <2>1. Part(src) \in Seq(Datum) /\ Part(dir[cur].data) \in Seq(Datum)
    BY <1>3, Layered
  <2>. QED  BY <1>3, <2>1 DEF Load, Create, Write, CloseOutput
<1>6. \A n \in Names : n # out \/ write_stdout => dir'[n] = dir[n]
  BY <1>1, <1>3, <1>5
<1>7. KeptInv'
  BY <1>1, <1>4, <1>6, RefugeStays DEF FileInv, Refuge
<1>8. DirInv'
  <2>1. \A n \in Names : dir'[n] = dir[n] \/ dir'[n] = File(d)
    BY <1>3, <1>5
  <2>2. \A n \in Names : dir'[n].data \in Seq(Datum)
    BY <1>3, <2>1, Layered
  <2>3. dir' = [n \in Names |-> dir'[n]]
    BY <1>3, <1>5
  <2>4. src' \in Seq(Datum) /\ made' \in Seq(Datum)
    <3>1. CASE Write
      BY <1>3, <3>1, WriteFacts DEF Write
    <3>2. CASE Load
      BY <1>3, <3>2 DEF Load, output
    <3>3. CASE Create \/ CloseOutput
      BY <1>3, <3>3 DEF Create, CloseOutput, output
    <3>. QED  BY <3>1, <3>2, <3>3
  <2>. QED  BY <1>2, <2>2, <2>3, <2>4 DEF DirInv
<1>9. OutInv' /\ SrcInv' /\ OverInv'
  <2>1. OverInv'
    BY <1>1, <1>2 DEF FileInv, OverInv
  <2>2. ~write_stdout /\ out # cur => dir'[cur] = dir[cur]
    BY <1>3, <1>6
  <2>3. CASE Load
    <3>1. /\ pc = "load" /\ ~decompress /\ ret = 1 /\ dir' = dir
          /\ \/ pc' = "finish" /\ ret' = -3
             \/ pc' = "write" /\ src' = dir[cur].data
             \/ pc' = "create" /\ src' = dir[cur].data /\ ret' = ret
      BY <2>3 DEF Load, FileInv, OutInv
    <3>2. SrcInv'
      BY <1>1, <1>2, <3>1 DEF SrcInv, Good
    <3>3. OutInv'
      BY <1>1, <1>2, <1>4, <3>1 DEF OutInv, Good
    <3>. QED  BY <2>1, <3>2, <3>3
  <2>4. CASE Create
    <3>1. /\ pc = "create" /\ ret = 1 /\ src' = src
          /\ \/ pc' = "finish" /\ ret' \in {-3, -1}
             \/ pc' = "load" /\ ret' = ret /\ ~decompress
             \/ pc' = "write" /\ (decompress \/ ~fast)
      BY <2>4 DEF Create, FileInv, OutInv
    <3>2. ~write_stdout /\ out # cur /\ (decompress \/ ~fast) => src = dir[cur].data
      BY <3>1 DEF FileInv, SrcInv
    <3>3. SrcInv'
      BY <1>1, <1>2, <2>2, <3>1, <3>2 DEF SrcInv, Good
    <3>4. OutInv'
      BY <1>1, <1>2, <1>4, <3>1 DEF OutInv, Good
    <3>. QED  BY <2>1, <3>3, <3>4
  <2>5. CASE Write
    <3>1. pc = "write" /\ pc' = "close" /\ UNCHANGED <<dir, src>>
      BY <2>5 DEF Write
    <3>2. ~write_stdout /\ out # cur => src = dir[cur].data
      BY <3>1 DEF FileInv, SrcInv
    <3>. QED  BY <1>1, <1>2, <1>4, <2>1, <2>5, <3>1, <3>2, WriteFacts DEF OutInv, SrcInv
  <2>6. CASE CloseOutput
    <3>1. pc = "close" /\ pc' = "finish" /\ UNCHANGED <<src, made, ret>>
      BY <2>6 DEF CloseOutput
    <3>2. ~write_stdout /\ out # cur => src = dir[cur].data
      BY <3>1 DEF FileInv, SrcInv
    <3>3. ~write_stdout /\ Good' => Good /\ dir' = [dir EXCEPT ![out] = File(made)]
      BY <1>2, <2>6, <3>1 DEF CloseOutput, Good
    <3>4. ~write_stdout /\ Good' => dir'[out] = File(made)
      BY <1>1, <1>3, <3>3
    <3>5. Good => Made
      BY <3>1 DEF FileInv, OutInv
    <3>6. Made' = Made /\ File(made)' = File(made)
      BY <1>2, <3>1 DEF Made, File
    <3>. QED  BY <1>1, <1>2, <1>4, <2>1, <2>2, <3>1, <3>2, <3>3, <3>4, <3>5, <3>6
              DEF OutInv, SrcInv
  <2>. QED  BY <2>3, <2>4, <2>5, <2>6
<1>. QED  BY <1>7, <1>8, <1>9 DEF FileInv

\* When an input is removed that was somebody's refuge, its output becomes it,
\* unless the removal is one of those that lose data.
LEMMA FinishStep ==
  ASSUME BasicInv, FileInv, Finish
  PROVE  FileInv'
<1>1. /\ pc = "finish" /\ pc' = "fail" /\ InTask
      /\ UNCHANGED <<job, cur, out, src, made, ret, fault, over>>
      /\ \/ dir' = dir /\ lost' = lost
         \/ /\ dir' = [dir EXCEPT ![cur] = Absent] /\ Success /\ Removes
            /\ lost' = (IF Mishap THEN lost \cup {dir[cur].data} ELSE lost)
  BY DEF Finish, InTask, task, output
<1>2. UNCHANGED <<force, keep, write_stdout, decompress, fast, closefails, Removes, Datum>>
  BY <1>1, OptionsStay
<1>3. /\ dir = [n \in Names |-> dir[n]] /\ \A n \in Names : dir[n].data \in Seq(Datum)
      /\ src \in Seq(Datum) /\ made \in Seq(Datum) /\ cur \in Names /\ ~Busy'
  BY <1>1, CurFacts DEF FileInv, DirInv, Busy
<1>4. KeptInv'
  <2>1. CASE dir' = dir /\ lost' = lost
    BY <1>1, <1>3, <2>1, RefugeStays DEF FileInv
  <2>2. CASE /\ dir' = [dir EXCEPT ![cur] = Absent] /\ Success /\ Removes
             /\ lost' = (IF Mishap THEN lost \cup {dir[cur].data} ELSE lost)
    <3>1. \A m \in Names : m # cur => dir'[m] = dir[m]
      BY <1>3, <2>2
    <3>2. ~write_stdout /\ Busy /\ out \in Names
      BY <1>1, <2>2 DEF Removes, Busy, FileInv, OutInv
    <3>3. ASSUME NEW n \in Names, NEW m \in Names, Refuge(n, m)
          PROVE  \/ dir'[m] = dir[m] /\ (Busy' => m # out')
                 \/ \E l \in Names : Refuge(n, l)'
                 \/ IsIn(n, over') \/ IsIn(n, lost')
      <4>1. CASE m # cur
        BY <1>3, <3>1, <4>1
      <4>2. CASE m = cur /\ Mishap
        BY <2>2, <3>3, <4>2, RefugeHolds DEF FileInv, IsIn
      <4>3. CASE m = cur /\ ~Mishap
        <5>1. Good /\ out # cur
          BY <2>2, <3>2, <3>3, <4>3 DEF Mishap, Success, Good, Refuge
        <5>2. Made /\ dir[out] = File(made) /\ src = dir[cur].data
          BY <1>1, <3>2, <5>1 DEF FileInv, OutInv, SrcInv
        <5>3. job.dir[n].data \in Seq(Datum)
          BY JobFacts DEF BasicInv, IsEntry, Datum
        <5>4. Kept(src, job.dir[n].data)
          BY <3>3, <4>3, <5>2 DEF Refuge
        <5>5. Kept(made, job.dir[n].data)
          <6>1. CASE decompress
            BY <1>3, <5>2, <5>3, <5>4, <6>1, KeptOneLess DEF Kept, Made
          <6>2. CASE ~decompress
            BY <1>3, <5>2, <5>3, <5>4, <6>2, KeptOneMore DEF Kept, Made
          <6>. QED  BY <6>1, <6>2
        <5>6. dir'[out].type = "file" /\ dir'[out].data = made
          BY <3>1, <3>2, <5>1, <5>2 DEF File
        <5>7. PICK l \in Names : l = out
          BY <3>2
        <5>8. Kept(dir[l].data, job.dir[n].data)'
          BY <1>1, <1>2, <5>5, <5>6, <5>7 DEF Kept
        <5>9. Refuge(n, l)'
          BY <1>1, <1>3, <5>6, <5>7, <5>8 DEF Refuge
        <5>. QED  BY <5>9
      <4>. QED  BY <4>1, <4>2, <4>3
    <3>. QED  BY <1>1, <2>2, <3>3, RefugeStays DEF FileInv
  <2>. QED  BY <1>1, <2>1, <2>2
<1>5. DirInv'
  <2>1. Absent.data \in Seq(Datum)
    BY DEF Absent
  <2>2. \A n \in Names : dir'[n] = dir[n] \/ dir'[n] = Absent
    BY <1>1, <1>3
  <2>3. \A n \in Names : dir'[n].data \in Seq(Datum)
    BY <1>3, <2>1, <2>2
  <2>4. dir' = [n \in Names |-> dir'[n]]
    BY <1>1, <1>3
  <2>. QED  BY <1>1, <1>2, <1>3, <2>3, <2>4 DEF DirInv
<1>6. OutInv' /\ SrcInv' /\ OverInv'
  BY <1>1, <1>2 DEF FileInv, OutInv, SrcInv, OverInv, Busy
<1>. QED  BY <1>4, <1>5, <1>6 DEF FileInv

LEMMA FailStep ==
  ASSUME BasicInv, FileInv, Fail
  PROVE  FileInv'
<1>1. pc' = "next" /\ UNCHANGED <<job, dir, cur, out, src, made, over, lost>>
  BY DEF Fail, Return, output, gone
<1>2. UNCHANGED <<force, keep, write_stdout, decompress, fast, closefails, Removes, Datum>>
  BY <1>1, OptionsStay
<1>3. ~Busy'
  BY <1>1 DEF Busy
<1>4. KeptInv'
  BY <1>1, <1>3, RefugeStays DEF FileInv
<1>5. DirInv' /\ OutInv' /\ SrcInv' /\ OverInv'
  BY <1>1, <1>2, <1>3 DEF FileInv, DirInv, OutInv, SrcInv, OverInv
<1>. QED  BY <1>4, <1>5 DEF FileInv

LEMMA FileStep ==
  ASSUME BasicInv, FileInv, [Next]_vars
  PROVE  FileInv'
BY QuietStep, PrepareStep, WriteStep, FinishStep, FailStep DEF Next

\* Whatever is in the directory, however many operands there are, whatever names
\* the headers hold and whichever calls fail: what a file held is there in every
\* state, as it was or in an output that is complete, unless the user has agreed
\* to replace it, or it was removed in one of the ways that lose data: after an
\* output that is not complete although it counts as one, or with consent as what
\* was made of an operand before, or as the input itself.
THEOREM NothingElseLost == Spec => []LossesKnown
<1>1. Init => BasicInv /\ FileInv
  <2>1. ASSUME Init PROVE FileInv
    <3>1. /\ job \in Jobs /\ pc = "next" /\ dir = job.dir /\ src = <<>> /\ made = <<>>
          /\ over = {}
      BY <2>1 DEF Init
    <3>2. /\ dir = [n \in Names |-> dir[n]] /\ \A n \in Names : dir[n].data \in Seq(Datum)
      BY <3>1, JobFacts DEF IsEntry, Datum
    <3>3. <<>> \in Seq(Datum)
      OBVIOUS
    <3>4. ASSUME NEW n \in Names, job.dir[n].type = "file" PROVE Refuge(n, n)
      <4>1. Kept(job.dir[n].data, job.dir[n].data)
        <5>1. Len(job.dir[n].data) \in Nat
          BY <3>1, <3>2, LenProperties
        <5>. QED  BY <5>1 DEF Kept, Grown, Shrunk
      <4>. QED  BY <3>1, <3>4, <4>1 DEF Refuge, Busy
    <3>5. KeptInv
      BY <3>4 DEF KeptInv
    <3>. QED  BY <3>1, <3>2, <3>3, <3>5 DEF FileInv, DirInv, OutInv, SrcInv, OverInv, Busy
  <2>. QED  BY <2>1, BasicInit
<1>2. BasicInv /\ FileInv => LossesKnown
  <2>1. ASSUME BasicInv, FileInv, NEW n \in Names, job.dir[n].type = "file"
        PROVE  Found(n) \/ Replaced(n) \/ IsIn(n, lost)
    <3>1. CASE \E m \in Names : Refuge(n, m)
      <4>1. PICK m \in Names : Refuge(n, m)
        BY <3>1
      <4>2. Holds(dir[m].data, job.dir[n].data) /\ dir[m].type = "file"
        BY <2>1, <4>1, RefugeHolds DEF FileInv, Refuge
      <4>. QED  BY <4>2 DEF Found
    <3>2. CASE IsIn(n, over)
      BY <2>1, <3>2 DEF IsIn, Replaced, FileInv, OverInv
    <3>3. CASE IsIn(n, lost)
      BY <3>3
    <3>. QED  BY <2>1, <3>1, <3>2, <3>3 DEF FileInv, KeptInv
  <2>. QED  BY <2>1 DEF LossesKnown
<1>. QED  BY <1>1, <1>2, BasicStep, FileStep, PTL DEF Spec
=============================================================================
