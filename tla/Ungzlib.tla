------------------------------- MODULE Ungzlib -------------------------------
(***************************************************************************)
(* Decompression (ungzlib.c): a file of concatenated gzip and zlib members *)
(* is read through one input buffer and given to zlib's inflate.           *)
(*                                                                         *)
(* A caller may first parse the header of the first member for its name    *)
(* (ungzlib_parse_header with outpath, as decide_outpath does); then       *)
(* ungzlib_process_all decompresses member after member and looks at the   *)
(* header of each further one.                                             *)
(*                                                                         *)
(* The file is a sequence of bytes of which only the role is kept: the     *)
(* magic bytes, the flags, an XLEN, the end of the name, a byte of         *)
(* content, the last byte of a member, or one that inflate rejects.        *)
(* Pointers are positions in the file: the buffer holds the bytes from     *)
(* rd + 1 to got.                                                          *)
(***************************************************************************)
EXTENDS Integers, Sequences

CONSTANTS
  Cap,        \* the size of ibuf
  Fixed,      \* 10 in the code: the bytes of a gzip header that are always there
  IOErrors,   \* whether reading and writing may fail
  Jobs        \* files, and whether the first header is asked for its name

Roles == {"1F", "8B", "78", "flags", "xlen", "field", "nul", "data", "end", "bad"}
IsFile(f) ==
  /\ Len(f) \in Nat
  /\ \A p \in 1 .. Len(f) :
       /\ f[p].role \in Roles
       /\ f[p].role = "flags" => f[p].extra \in BOOLEAN /\ f[p].name \in BOOLEAN
       /\ f[p].role = "xlen" => f[p].n \in Nat

\* Up to p the file consists of whole members that inflate accepts.
IsWhole(f, p) ==
  /\ p = 0 \/ f[p].role = "end"
  /\ \A q \in 1 .. p : f[q].role # "bad"

IsGzip(f, p) == p + 2 <= Len(f) /\ f[p + 1].role = "1F" /\ f[p + 2].role = "8B"
IsMember(f, p) == IsGzip(f, p) \/ (p + 2 <= Len(f) /\ f[p + 1].role = "78")

\* the first member has a name, which begins behind this byte
HasNamedHeader(f) == IsGzip(f, 0) /\ Len(f) >= 3 /\ f[3].role = "flags" /\ f[3].name
NameBegins(f) ==
  IF ~f[3].extra THEN Fixed
  ELSE Fixed + 2 + IF Len(f) > Fixed /\ f[Fixed + 1].role = "xlen" THEN f[Fixed + 1].n ELSE 0

\* What RFC 1950 and RFC 1952 say of the roles: a member begins with its magic
\* bytes, its header is not shorter than Fixed bytes, and holds no content.
IsFormat(f) ==
  /\ \A p, q \in 0 .. Len(f) : p < q /\ IsWhole(f, p) /\ IsWhole(f, q) =>
       IsMember(f, p) /\ (IsGzip(f, p) => q >= p + Fixed)
  /\ HasNamedHeader(f) => \A p \in 1 .. Len(f) : f[p].role \in {"data", "end"} =>
       \E z \in NameBegins(f) + 1 .. p - 1 : f[z].role = "nul"

ASSUME SizesAssumption == Fixed \in Nat /\ Fixed >= 3 /\ Cap \in Nat /\ Cap >= Fixed + 2
ASSUME JobsAssumption ==
  IOErrors \in BOOLEAN /\ \A j \in Jobs : IsFile(j.file) /\ IsFormat(j.file) /\ j.wantname \in BOOLEAN

VARIABLES
  job,       \* never changes
  pc,
  got,       \* how much of the file has been read
  rd, off,   \* next_in: in the file, and in ibuf
  zin, zend, \* inflate: how much of the file it has consumed, and Z_STREAM_END was returned
  want,      \* parse_header: outpath is not NULL
  xlen, namefrom, \* its locals: what is left of the extra field, where the name begins
  ret,       \* the value of ret in the function that runs
  named,     \* *outpath is set
  out        \* the positions of the content that was written

file == job.file
buffer == <<got, rd, off>>
inflater == <<zin, zend>>
header == <<want, xlen, namefrom, named>>
vars == <<job, pc, buffer, inflater, header, ret, out>>

avail == got - rd
At(p) == file[rd + p].role

Init ==
  /\ job \in Jobs
  /\ pc = IF job.wantname THEN "magic" ELSE "member"
  /\ got = 0 /\ rd = 0 /\ off = 0
  /\ zin = 0 /\ zend = FALSE
  /\ want = job.wantname /\ xlen = 0 /\ namefrom = 0 /\ named = FALSE
  /\ ret = "ok" /\ out = <<>>
-----------------------------------------------------------------------------
(* buffer_fetch *)

FetchRoom == Cap - (off + avail)
\* whether the bytes in the buffer are moved to its front
MovesSlip(need) == FALSE  \* slip: never, so that the buffer fills up
Moves(need) == FetchRoom < need \/ avail = 0
Room(need) == IF Moves(need) THEN Cap - avail ELSE FetchRoom

\* fread fills the room unless the file ends; result is the outcome, of which
\* Z_DATA_ERROR is an end of file
Fetch(need, result) ==
  IF avail >= need
    THEN result = "ok" /\ UNCHANGED buffer
    ELSE LET n == IF Len(file) - got < Room(need) THEN Len(file) - got ELSE Room(need)
         IN /\ off' = IF Moves(need) THEN 0 ELSE off
            /\ UNCHANGED rd
            /\ \/ got' = got + n /\ result = IF avail + n >= need THEN "ok" ELSE "data"
               \/ IOErrors /\ result = "errno" /\ UNCHANGED got
-----------------------------------------------------------------------------
(* inflate *)

Rejects(p) == file[p].role = "bad"

\* n bytes behind position a are taken: none is rejected, and at most the last
\* one ends the member
Takes(a, n) == n > 0 =>
  /\ a = zin /\ ~zend
  /\ \A p \in a + 1 .. a + n : ~Rejects(p)
  /\ \A p \in a + 1 .. a + n - 1 : file[p].role # "end"

\* as much is taken as there is
TakesAll(a, m, n) == n \in 0 .. m /\ Takes(a, n) /\ (n < m => ~Takes(a, n + 1))

InflateResult(a, m, n) ==
  IF zend \/ (n > 0 /\ file[a + n].role = "end") THEN "end"
  ELSE IF n < m /\ ~Takes(a, n + 1) THEN "data" ELSE "ok"

\* the positions of the content in the n bytes behind position a
Content(a, n) ==
  LET of[k \in Nat] == IF k = 0 THEN <<>>
                       ELSE IF file[a + k].role = "data" THEN Append(of[k - 1], a + k)
                       ELSE of[k - 1]
  IN of[n]
-----------------------------------------------------------------------------
(* feed_header: the next n bytes of the buffer go to inflate *)

\* Bytes that are left in the buffer count as an error of the header.
FeedHeader(n, result) ==
  \E consumed \in 0 .. n :
    /\ TakesAll(rd, n, consumed)
    /\ zin' = zin + consumed /\ zend' = (InflateResult(rd, n, consumed) = "end")
    /\ rd' = rd + consumed /\ off' = off + consumed /\ UNCHANGED got
    /\ result = IF avail - consumed # 0 THEN "data" ELSE InflateResult(rd, n, consumed)
-----------------------------------------------------------------------------
(* ungzlib_parse_header *)

Outcomes == {"ok", "data", "errno"}

\* what becomes of a parsed header: decide_outpath gives up if it is not in
\* order, process_all returns what it says
Parsed(result) ==
  /\ ret' = result
  /\ pc' = IF result = "ok" THEN "member" ELSE "done"

Magic ==
  /\ pc = "magic"
  /\ \E r \in Outcomes :
       /\ Fetch(2, r)
       /\ IF r # "ok" THEN Parsed(IF r = "errno" THEN r ELSE "end")
          ELSE IF file[rd + 1].role = "1F" /\ file[rd + 2].role = "8B"
            THEN pc' = "fixed" /\ UNCHANGED ret
          ELSE Parsed(IF file[rd + 1].role = "78" THEN "ok" ELSE "end")
  /\ UNCHANGED <<job, inflater, header, out>>

\* flags that are not those of a gzip header count as none
HasExtra == file[rd + 3].role = "flags" /\ file[rd + 3].extra
HasName == file[rd + 3].role = "flags" /\ file[rd + 3].name

FixedHeader ==
  /\ pc = "fixed"
  /\ \E r \in Outcomes :
       /\ Fetch(Fixed, r)
       /\ IF r # "ok" THEN Parsed(r)
          ELSE IF ~want \/ ~HasName THEN Parsed("ok")
          ELSE pc' = (IF HasExtra THEN "xlen" ELSE "feed") /\ UNCHANGED ret
  /\ xlen' = 0
  /\ UNCHANGED <<job, inflater, want, namefrom, named, out>>

ExtraLength ==
  /\ pc = "xlen"
  /\ \E r \in Outcomes :
       /\ Fetch(Fixed + 2, r)
       /\ IF r # "ok" THEN Parsed(r) /\ UNCHANGED xlen
          ELSE /\ xlen' = IF file[rd + Fixed + 1].role = "xlen" THEN file[rd + Fixed + 1].n ELSE 0
               /\ pc' = "feed" /\ UNCHANGED ret
  /\ UNCHANGED <<job, inflater, want, namefrom, named, out>>

FeedFixed ==
  /\ pc = "feed"
  /\ \E r \in Outcomes \cup {"end"} :
       /\ FeedHeader(IF HasExtra THEN Fixed + 2 ELSE Fixed, r)
       /\ IF r # "ok" THEN Parsed(r) /\ UNCHANGED namefrom
          ELSE pc' = (IF xlen > 0 THEN "fetchextra" ELSE "name") /\ namefrom' = rd' /\ UNCHANGED ret
  /\ UNCHANGED <<job, want, xlen, named, out>>

FetchExtra ==
  /\ pc = "fetchextra"
  /\ \E r \in Outcomes :
       /\ Fetch(1, r)
       /\ IF r # "ok" THEN Parsed(r) ELSE pc' = "extra" /\ UNCHANGED ret
  /\ UNCHANGED <<job, inflater, header, out>>

chunk == IF avail <= xlen THEN avail ELSE xlen

FeedExtra ==
  /\ pc = "extra"
  /\ \E r \in Outcomes \cup {"end"} :
       /\ FeedHeader(chunk, r)
       /\ xlen' = xlen - chunk
       /\ IF r # "ok" THEN Parsed(r) /\ UNCHANGED namefrom
          ELSE /\ pc' = IF xlen' > 0 THEN "fetchextra" ELSE "name"
               /\ namefrom' = rd' /\ UNCHANGED ret
  /\ UNCHANGED <<job, want, named, out>>

\* the bytes of the name are copied, up to its end or that of the buffer
Name ==
  /\ pc = "name"
  /\ LET ends == {p \in rd + 1 .. got : file[p].role = "nul"}
     IN IF ends = {}
          THEN rd' = got /\ off' = off + avail /\ pc' = "fetchname"
          ELSE \E p \in ends : /\ \A q \in ends : p <= q
                              /\ rd' = p /\ off' = off + (p - rd) /\ pc' = "feedname"
  /\ UNCHANGED <<job, got, inflater, header, ret, out>>

FetchName ==
  /\ pc = "fetchname"
  /\ \E r \in Outcomes :
       /\ Fetch(1, r)
       /\ IF r # "ok" THEN Parsed(r) ELSE pc' = "name" /\ UNCHANGED ret
  /\ UNCHANGED <<job, inflater, header, out>>

\* the length of the copy, with the terminator
copiedSlip == rd - namefrom - 1  \* slip: without it
copied == rd - namefrom

\* The copy of the name is fed, from a buffer of its own that is used up.
FeedName ==
  /\ pc = "feedname"
  /\ \E n \in 0 .. copied :
       /\ TakesAll(namefrom, copied, n)
       /\ zin' = zin + n /\ zend' = (InflateResult(namefrom, copied, n) = "end")
       /\ Parsed(IF n < copied THEN "data" ELSE InflateResult(namefrom, copied, n))
  /\ named' = (ret' = "ok")
  /\ UNCHANGED <<job, buffer, want, xlen, namefrom, out>>
-----------------------------------------------------------------------------
(* ungzlib_process_member and ungzlib_process_all *)

\* inflateReset, and the header of the next member
NextMemberSlip == zend' = zend  \* slip: inflate is not reset
NextMember == zend' = FALSE
AfterMember ==
  /\ NextMember /\ ret' = "end"
  /\ want' = FALSE /\ pc' = "magic"

\* The end of the file is an error in a member, and none behind one.
EndOfFileSlip(r) == r  \* slip: the member that has ended is not looked at
EndOfFile(r) == IF r = "data" /\ ret = "end" THEN "ok" ELSE r

FetchMember ==
  /\ pc = "member" /\ avail = 0
  /\ \E r \in Outcomes :
       /\ Fetch(1, r)
       /\ IF r # "ok" THEN ret' = EndOfFile(r) /\ pc' = "done" /\ UNCHANGED <<zend, want>>
          ELSE IF ret = "end" THEN AfterMember
          ELSE pc' = "inflate" /\ UNCHANGED <<ret, zend, want>>
  /\ UNCHANGED <<job, zin, xlen, namefrom, named, out>>

EnterInflate ==
  /\ pc = "member" /\ avail > 0
  /\ pc' = "inflate"
  /\ UNCHANGED <<job, buffer, inflater, header, ret, out>>

\* One call of inflate, which may stop early because the output is full, and the
\* writing of what it has put out.
InflateMember ==
  /\ pc = "inflate"
  /\ \E n \in 0 .. avail :
       /\ Takes(rd, n) /\ (n = 0 => zend \/ ~Takes(rd, 1))
       /\ zin' = zin + n /\ rd' = rd + n /\ off' = off + n
       /\ \E r \in {InflateResult(rd, avail, n)} \cup (IF n > 0 THEN {InflateResult(rd, n, n)} ELSE {}) :
            \/ /\ out' = out \o Content(rd, n)
               /\ IF r = "end" /\ got > rd' THEN AfterMember
                  ELSE /\ ret' = r /\ zend' = (r = "end") /\ UNCHANGED want
                       /\ pc' = IF r = "data" THEN "done" ELSE "member"
            \/ /\ IOErrors /\ Content(rd, n) # <<>>
               /\ ret' = "errno" /\ pc' = "done"
               /\ zend' = (r = "end") /\ UNCHANGED <<want, out>>
  /\ UNCHANGED <<job, got, xlen, namefrom, named>>

Stopped == pc = "done" /\ UNCHANGED vars

Next == Magic \/ FixedHeader \/ ExtraLength \/ FeedFixed \/ FetchExtra \/ FeedExtra \/ Name
        \/ FetchName \/ FeedName \/ FetchMember \/ EnterInflate \/ InflateMember \/ Stopped

Spec == Init /\ [][Next]_vars
FairSpec == Spec /\ WF_vars(Next)
-----------------------------------------------------------------------------
InName == pc \in {"name", "fetchname", "feedname"}

Whole(p) == IsWhole(file, p)
LastWhole(p) == Whole(p) /\ \A q \in p + 1 .. Len(file) : ~Whole(q)
StartsMember(p) == IsMember(file, p)

\* "Z_OK: all members decompressed successfully and input is at EOF.
\* Z_STREAM_END: one or more members decompressed, followed by non-gzip and
\* non-zlib data" (ungzlib.h:38): and the content of just these is written,
\* wherever the reads of the buffer have cut the file.
Honest ==
  pc = "done" =>
    /\ ret = "ok" => Whole(Len(file)) /\ Len(file) > 0 /\ out = Content(0, Len(file))
    /\ ret = "end" => \E p \in 0 .. Len(file) :
                        /\ LastWhole(p) /\ ~StartsMember(p) /\ out = Content(0, p)
                        /\ p > 0 \/ job.wantname

\* "Z_OK: header parsed successfully" (ungzlib.h:26): an error is reported only
\* for a file that is empty or whose members are followed by a broken one.
NoFalseAlarm ==
  pc = "done" /\ ret = "data" =>
    \A p \in 0 .. Len(file) : LastWhole(p) =>
       Len(file) = 0 \/ (p < Len(file) /\ (p = 0 \/ StartsMember(p)))

\* NoFalseAlarm for files that are not asked for a name they have.
NoFalseAlarmPlain ==
  (job.wantname => \A p \in 1 .. Len(file) : file[p].role = "flags" => ~file[p].name)
  => NoFalseAlarm

\* The bytes in the buffer end before the buffer does, and inflate is where they
\* begin; while the name is copied it is where the name begins.
InStep ==
  /\ off + avail <= Cap
  /\ zin = namefrom \/ ~InName
  /\ InName \/ ret \in {"data", "errno"} \/ zin = rd

\* Reading ends.
Terminates == <>(pc = "done")
=============================================================================
