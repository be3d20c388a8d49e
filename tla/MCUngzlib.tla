----------------------------- MODULE MCUngzlib ------------------------------
(* Small files for Ungzlib: up to two whole members, and then nothing,       *)
(* a member cut short, a member with one byte broken, or other data.          *)
EXTENDS Ungzlib, SequencesExt

CONSTANT Absent

Byte(role) == [role |-> role]
Bytes(role, n) == [k \in 1 .. n |-> Byte(role)]

\* extra and name are the lengths of the fields, or Absent
Gzip(extra, name, body) ==
  <<Byte("1F"), Byte("8B"), [role |-> "flags", extra |-> extra # Absent, name |-> name # Absent]>>
    \o Bytes("field", Fixed - 3)
    \o (IF extra = Absent THEN <<>>
        ELSE <<[role |-> "xlen", n |-> extra], Byte("field")>> \o Bytes("field", extra))
    \o (IF name = Absent THEN <<>> ELSE Bytes("field", name) \o <<Byte("nul")>>)
    \o Bytes("data", body) \o <<Byte("end")>>

Zlib(body) == <<Byte("78"), Byte("field")>> \o Bytes("data", body) \o <<Byte("end")>>

MembersOf(extras, names, bodies) ==
  {Gzip(e, n, b) : e \in extras, n \in names, b \in bodies} \cup {Zlib(b) : b \in bodies}

FilesOf(members, most) == {FlattenSeq(ms) : ms \in UNION {[1 .. n -> members] : n \in 0 .. most}}

Broken == {[m EXCEPT ![p] = Byte("bad")] : p \in 1 .. 4, m \in {Gzip(Absent, Absent, 1), Zlib(1)}}
Cut == {SubSeq(m, 1, p) : p \in 1 .. 4, m \in {Gzip(Absent, Absent, 1), Zlib(1)}}
Rests == {<<>>, Bytes("bad", 1), Bytes("bad", 3)} \cup Broken \cup Cut

JobsOf(members, most, wants) ==
  [file : {f \o r : f \in FilesOf(members, most), r \in Rests}, wantname : wants]

\* two members without a name, and one with a name or an extra field that are
\* shorter or longer than what is left of the buffer
MCJobs == JobsOf(MembersOf({Absent, 2}, {Absent}, {0, 3}), 2, BOOLEAN)
          \cup JobsOf(MembersOf({Absent, 0, 5}, {Absent, 0, 3}, {2}), 1, {TRUE})
HeaderJobs == JobsOf(MembersOf({Absent}, {2}, {0, 3}), 1, {TRUE})
=============================================================================
