---------------------------- MODULE XaStreamsProofs ----------------------------
(***************************************************************************)
(* Every sector that reaches the disc through the interleaver is valid,    *)
(* and every stream of the manifest is whole there, for all files and for  *)
(* manifests that entries[] has places for.                                *)
(***************************************************************************)
EXTENDS XaStreams, SequenceTheorems, WellFoundedInduction, TLAPS

Flags == {"audio", "data", "realtime", "form2", "eof"}
Subheaders == [file : Int, channel : Int, flags : SUBSET Flags]

\* A sector with these fields.
Fields(m, u, v, d, e) == [mode : m, sub : u, copy : v, data : d, edc : e]

\* A sector some tool has made: one of mode 2 has a checksum, right or wrong.
Made(s) ==
  /\ s \in Fields({0, 2}, Subheaders, Subheaders, {s.data}, {s.edc})
  /\ s.mode = 2 => s.edc # NoEdc

Valid(s) == s.mode = 2 => s.sub = s.copy /\ s.edc = EdcOf(s)

LEMMA EmptyMade == Made(Empty)
<1>1. Subheader(0, 0, {}) \in Subheaders
  BY DEF Subheader, Subheaders
<1> QED
  BY <1>1 DEF Made, Fields, Empty

LEMMA EdcNotNone == \A s : EdcOf(s) # NoEdc /\ Forced # NoEdc
  BY DEF EdcOf, NoEdc, Forced

\* The encoder's sectors, the last one of a file included.
LEMMA SectorMade ==
  ASSUME NEW file \in Int, NEW channel \in Int, NEW flags \in SUBSET Flags, NEW data
  PROVE  Made(Checked([InitSector(file, channel, flags) EXCEPT !.data = data]))
<1> DEFINE sub == Subheader(file, channel % 32, flags)
<1> DEFINE i == InitSector(file, channel, flags)
<1> DEFINE s == [i EXCEPT !.data = data]
<1>1. sub \in Subheaders
  BY DEF Subheader, Subheaders
<1>2. Empty \in Fields({0}, {Subheader(0, 0, {})}, {Subheader(0, 0, {})}, {<<>>}, {NoEdc})
  BY DEF Fields, Empty
<1>3. i = [Empty EXCEPT !.mode = 2, !.sub = sub, !.copy = sub]
  BY DEF InitSector
<1> HIDE DEF sub, i
<1>4. i \in Fields({2}, {sub}, {sub}, {<<>>}, {NoEdc})
  BY <1>2, <1>3 DEF Fields
<1>5. s \in Fields({2}, {sub}, {sub}, {data}, {NoEdc})
  BY <1>4 DEF Fields
<1> HIDE DEF s
<1>6. Checked(s) \in Fields({2}, {sub}, {sub}, {data}, {EdcOf(s)})
  BY <1>5 DEF Fields, Checked
<1>7. Made(Checked(s))
  BY <1>1, <1>6, EdcNotNone DEF Made, Fields
<1> QED
  BY <1>7 DEF s, i

LEMMA EncoderMade ==
  ASSUME NEW file \in Int, NEW channel \in Int, NEW data
  PROVE  Made(AudioSector(file, channel, data)) /\ Made(VideoSector(file, channel, data))
<1>1. Audio \in SUBSET Flags /\ Video \in SUBSET Flags
  BY DEF Audio, Video, Flags
<1>2. Made(Checked([InitSector(file, channel, Audio) EXCEPT !.data = data]))
  BY <1>1, SectorMade
<1>3. Made(Checked([InitSector(file, channel, Video) EXCEPT !.data = data]))
  BY <1>1, SectorMade
<1> QED
  BY <1>2, <1>3 DEF AudioSector, VideoSector

LEMMA FinalizeMade ==
  ASSUME NEW s, Made(s)
  PROVE  Made(Finalize(s))
<1> DEFINE sub == [s.sub EXCEPT !.flags = @ \cup {"eof"}]
<1> DEFINE data == Append(s.data, "marked")
<1>1. s.sub \in Subheaders
  BY DEF Made, Fields
<1>2. sub \in Subheaders
  BY <1>1 DEF Subheaders, Flags
<1>3. Finalize(s) = [s EXCEPT !.sub = sub, !.data = data]
  BY DEF Finalize, Made, Fields
<1> HIDE DEF sub, data
<1>4. Finalize(s) \in Fields({s.mode}, {sub}, {s.copy}, {data}, {s.edc})
  BY <1>3 DEF Made, Fields
<1> QED
  BY <1>2, <1>4 DEF Made, Fields

\* The interleaver's patch.
LEMMA PatchMade ==
  ASSUME NEW s, Made(s), NEW file \in Int, NEW channel \in Int
  PROVE  Made(Patch(s, file, channel))
<1> DEFINE patched(sub) ==
        [sub EXCEPT !.file    = IF file >= 0 THEN file % 256 ELSE @,
                    !.channel = IF channel >= 0 THEN channel % 32 ELSE @]
<1>1. ASSUME NEW sub \in Subheaders PROVE patched(sub) \in Subheaders
  <2>1. sub.file \in Int /\ sub.channel \in Int
    BY DEF Subheaders
  <2>2. /\ (IF file >= 0 THEN file % 256 ELSE sub.file) \in Int
        /\ (IF channel >= 0 THEN channel % 32 ELSE sub.channel) \in Int
    BY <2>1
  <2> QED
    BY <2>2 DEF Subheaders
<1>2. patched(s.sub) \in Subheaders /\ patched(s.copy) \in Subheaders
  BY <1>1 DEF Made, Fields
<1>3. Patch(s, file, channel)
        = [s EXCEPT !.sub = patched(s.sub), !.copy = patched(s.copy), !.edc = Forced]
  BY DEF Patch
<1> HIDE DEF patched
<1>4. Patch(s, file, channel)
        \in Fields({s.mode}, {patched(s.sub)}, {patched(s.copy)}, {s.data}, {Forced})
  BY <1>3 DEF Made, Fields
<1> QED
  BY <1>2, <1>4, EdcNotNone DEF Made, Fields

\* A checksum made now is that of the sector it is stored in.
LEMMA CheckedValid ==
  ASSUME NEW u, NEW d, NEW e, NEW c \in Fields({2}, {u}, {u}, {d}, {e})
  PROVE  Valid(Checked(c))
<1>1. Checked(c) \in Fields({2}, {u}, {u}, {d}, {EdcOf(c)})
  BY DEF Checked, Fields
<1>2. EdcOf(Checked(c)) = EdcOf(c)
  BY <1>1 DEF EdcOf, Fields
<1> QED
  BY <1>1, <1>2 DEF Valid, Fields

\* The image builder makes any such sector a valid one.
LEMMA EncodedValid ==
  ASSUME NEW s, Made(s)
  PROVE  Valid(EncodeSector(s))
<1>1. CASE s.mode = 0
  BY <1>1 DEF EncodeSector, Valid
<1>2. CASE s.mode = 2 /\ Form2(s)
  <2> DEFINE sub == [s.copy EXCEPT !.flags = @ \cup {"form2"}]
  <2> DEFINE c == [s EXCEPT !.sub = sub, !.copy = sub]
  <2>1. EncodeSector(s) = Checked(c)
    BY <1>2 DEF EncodeSector, Form2Sector, Made
  <2> HIDE DEF sub
  <2>2. c \in Fields({2}, {sub}, {sub}, {s.data}, {s.edc})
    BY <1>2 DEF Made, Fields
  <2> HIDE DEF c
  <2>3. Valid(Checked(c))
    BY <2>2, CheckedValid
  <2> QED
    BY <2>1, <2>3
<1>3. CASE s.mode = 2 /\ ~Form2(s)
  <2> DEFINE sub == Subheader(0, 0, {})
  <2> DEFINE c == [s EXCEPT !.sub = sub, !.copy = sub]
  <2>1. EncodeSector(s) = Checked(c)
    BY <1>3 DEF EncodeSector, Form1Sector
  <2> HIDE DEF sub
  <2>2. c \in Fields({2}, {sub}, {sub}, {s.data}, {s.edc})
    BY <1>3 DEF Made, Fields
  <2> HIDE DEF c
  <2>3. Valid(Checked(c))
    BY <2>2, CheckedValid
  <2> QED
    BY <2>1, <2>3
<1> QED
  BY <1>1, <1>2, <1>3 DEF Made, Fields

-----------------------------------------------------------------------------
(* Sequences, and the files. *)

IsSeq(q) == \E S : q \in Seq(S)
AllMade(q) == IsSeq(q) /\ \A i \in 1 .. Len(q) : Made(q[i])

LEMMA FunctionIsSeq ==
  ASSUME NEW n \in Nat, NEW f, f = [i \in 1 .. n |-> f[i]]
  PROVE  IsSeq(f) /\ Len(f) = n
<1> DEFINE S == {f[i] : i \in 1 .. n}
<1>1. f \in [1 .. n -> S]
  OBVIOUS
<1> HIDE DEF S
<1>2. f \in Seq(S) /\ Len(f) = n
  BY <1>1
<1> QED
  BY <1>2 DEF IsSeq

LEMMA AppendMade ==
  ASSUME NEW q, AllMade(q), NEW s, Made(s)
  PROVE  AllMade(Append(q, s))
<1>1. PICK S : q \in Seq(S)
  BY DEF AllMade, IsSeq
<1> DEFINE T == S \cup {s}
<1>2. q \in Seq(T) /\ s \in T
  BY <1>1
<1> HIDE DEF T
<1>3. Append(q, s) \in Seq(T) /\ Len(Append(q, s)) = Len(q) + 1
  BY <1>2
<1>4. ASSUME NEW i \in 1 .. Len(q) + 1 PROVE Made(Append(q, s)[i])
  <2>1. CASE i = Len(q) + 1
    BY <2>1, <1>2
  <2>2. CASE i \in 1 .. Len(q)
    BY <2>2, <1>2 DEF AllMade
  <2> QED
    BY <2>1, <2>2, <1>2
<1> QED
  BY <1>3, <1>4 DEF AllMade, IsSeq

LEMMA EncoderIdsInt == EncoderIds[1] \in Int /\ EncoderIds[2] \in Int
  BY StreamAssumption

LEMMA DivNat ==
  ASSUME NEW a \in Nat, NEW b \in Nat \ {0}
  PROVE  a \div b \in Nat
  OBVIOUS

\* What the encoder writes.
LEMMA XaFileMade ==
  ASSUME NEW st \in Streams, NEW samples \in Nat
  PROVE  AllMade(XaFile(st, samples))
<1> DEFINE n == (samples + PerSector - 1) \div PerSector
<1> DEFINE sector(i) == AudioSector(EncoderIds[1], EncoderIds[2], <<st, i>>)
<1> DEFINE f == [i \in 1 .. n |-> IF i = n THEN Finalize(sector(i)) ELSE sector(i)]
<1>1. n \in Nat
  <2>1. samples + PerSector - 1 \in Nat /\ PerSector \in Nat \ {0}
    BY StreamAssumption
  <2> QED
    BY <2>1, DivNat
<1>2. ASSUME NEW i \in 1 .. n PROVE Made(sector(i)) /\ Made(Finalize(sector(i)))
  <2>1. Made(sector(i))
    BY EncoderIdsInt, EncoderMade
  <2> QED
    BY <2>1, FinalizeMade
<1>3. XaFile(st, samples) = f
  BY DEF XaFile
<1> HIDE DEF n, sector
<1>4. IsSeq(f) /\ Len(f) = n
  BY <1>1, FunctionIsSeq
<1>5. \A i \in 1 .. n : Made(f[i])
  BY <1>2
<1> HIDE DEF f
<1> QED
  BY <1>3, <1>4, <1>5 DEF AllMade

LEMMA StrFileMade ==
  ASSUME NEW st \in Streams, NEW groups \in Nat
  PROVE  AllMade(StrFile(st, groups))
<1> DEFINE n == groups * (VideoRun + 1)
<1> DEFINE f == [i \in 1 .. n |->
                   IF i % (VideoRun + 1) = 0
                   THEN AudioSector(EncoderIds[1], EncoderIds[2], <<st, i>>)
                   ELSE VideoSector(EncoderIds[1], EncoderIds[2], <<st, i>>)]
<1>1. n \in Nat
  BY StreamAssumption
<1>2. ASSUME NEW i \in 1 .. n
      PROVE  /\ Made(AudioSector(EncoderIds[1], EncoderIds[2], <<st, i>>))
             /\ Made(VideoSector(EncoderIds[1], EncoderIds[2], <<st, i>>))
  <2>1. Made(AudioSector(EncoderIds[1], EncoderIds[2], <<st, i>>))
    BY EncoderIdsInt, EncoderMade
  <2>2. Made(VideoSector(EncoderIds[1], EncoderIds[2], <<st, i>>))
    BY EncoderIdsInt, EncoderMade
  <2> QED
    BY <2>1, <2>2
<1>3. StrFile(st, groups) = f
  BY DEF StrFile
<1> HIDE DEF n
<1>4. IsSeq(f) /\ Len(f) = n
  BY <1>1, FunctionIsSeq
<1>5. \A i \in 1 .. n : Made(f[i])
  BY <1>2
<1> HIDE DEF f
<1> QED
  BY <1>3, <1>4, <1>5 DEF AllMade

LEMMA EncodedMade ==
  ASSUME NEW st \in Streams, NEW n \in Lengths
  PROVE  AllMade(Encoded(st, n))
<1>1. n \in Nat
  BY StreamAssumption
<1> QED
  BY <1>1, XaFileMade, StrFileMade DEF Encoded

-----------------------------------------------------------------------------
(* The invariant. *)

LineOK(l) ==
  /\ l.type \in {"null", "xa", "xacd", "raw"}
  /\ l.sectors \in Nat \ {0}
  /\ l.type # "null" => l.stream \in Streams
  /\ IsXa(l) => l.ids = <<>> \/ l.ids \in Int \X Int

EntryType == [sectors : Nat \ {0}, type : {"null", "xa", "xacd", "raw"}, handle : Int,
              file : Int, channel : Int]
HandleType == [stream : Streams, pos : Nat, eof : BOOLEAN]

FilesOK    == files = [st \in Streams |-> files[st]] /\ \A st \in Streams : AllMade(files[st])
ManifestOK == /\ Len(manifest) \in Nat
              /\ \A i \in 1 .. Len(manifest) : LineOK(manifest[i])
              /\ line \in 0 .. Len(manifest)
EntriesOK  == /\ entries \in Seq(EntryType)
              /\ \A i \in 1 .. Len(entries) :
                   /\ entries[i].handle \in {Wild, NoFile} \cup 1 .. Len(handles)
                   /\ entries[i].type # "null" => entries[i].handle \in 1 .. Len(handles)
HandlesOK  == /\ handles \in Seq(HandleType)
              /\ \A h \in 1 .. Len(handles) :
                   /\ handles[h].pos <= Len(files[handles[h].stream])
                   /\ handles[h].eof => handles[h].pos = Len(files[handles[h].stream])
PlaceOK    == /\ at \in Nat \X Nat
              /\ pc \in {"parse", "chunk"} => at = <<1, 1>>
              /\ pc = "slot" => /\ at[1] \in 1 .. Len(entries)
                                /\ at[2] \in 1 .. entries[at[1]].sectors
ImageOK    == /\ AllMade(output)
              /\ pc = "done" => \A i \in 1 .. Len(image) : Valid(image[i])

IInv ==
  /\ pc \in {"parse", "chunk", "slot", "build", "done", "trap"}
  /\ FilesOK /\ ManifestOK /\ EntriesOK /\ HandlesOK /\ PlaceOK /\ ImageOK

LEMMA LinesOK == \A l \in Lines : LineOK(l)
<1>1. \A st \in Streams : Types(st) \subseteq {"xa", "xacd", "raw"}
  BY StreamAssumption DEF Types
<1>2. ASSUME NEW l \in [sectors : Counts, type : {"null"}] PROVE LineOK(l)
  BY ManifestAssumption DEF LineOK, IsXa
<1>3. ASSUME NEW st \in Streams, NEW l \in LinesOf(st) PROVE LineOK(l)
  BY <1>1, ManifestAssumption DEF LinesOf, LineOK, IsXa
<1> QED
  BY <1>2, <1>3 DEF Lines

LEMMA Initially == Init => IInv
<1> SUFFICES ASSUME Init PROVE IInv
  OBVIOUS
<1>1. FilesOK
  <2>1. PICK n \in [Streams -> Lengths] : files = [st \in Streams |-> Encoded(st, n[st])]
    BY DEF Init
  <2>2. \A st \in Streams : AllMade(Encoded(st, n[st]))
    BY EncodedMade
  <2> QED
    BY <2>1, <2>2 DEF FilesOK
<1>2. ManifestOK
  <2>1. PICK n \in 1 .. MaxLines : manifest \in [1 .. n -> Lines]
    BY DEF Init
  <2>2. n \in Nat
    BY ManifestAssumption
  <2>3. Len(manifest) = n
    BY <2>1, <2>2
  <2> QED
    BY <2>1, <2>2, <2>3, LinesOK DEF ManifestOK, Init
<1>3. EntriesOK /\ HandlesOK
  BY DEF Init, EntriesOK, HandlesOK
<1>4. PlaceOK
  BY DEF Init, PlaceOK
<1>5. ImageOK
  <2>1. <<>> \in Seq({})
    OBVIOUS
  <2> QED
    BY <2>1 DEF Init, ImageOK, AllMade, IsSeq
<1> QED
  BY <1>1, <1>2, <1>3, <1>4, <1>5 DEF IInv, Init

\* The numbers and the handle of a new entry.
LEMMA IdsInt ==
  ASSUME IInv, line < Len(manifest), NEW ids \in ReadIds(manifest[line + 1])
  PROVE  ids[1] \in Int /\ ids[2] \in Int
<1>1. LineOK(manifest[line + 1])
  BY DEF IInv, ManifestOK
<1>2. StaleIds \subseteq Int \X Int /\ Stale("channel", {-1, 0}) \subseteq Int
  <2>1. CASE entries = <<>>
    BY <2>1 DEF StaleIds, Stale
  <2>2. CASE entries # <<>>
    <3>1. entries[Len(entries)] \in EntryType
      BY <2>2 DEF IInv, EntriesOK
    <3> QED
      BY <2>2, <3>1 DEF StaleIds, Stale, EntryType
  <2> QED
    BY <2>1, <2>2
<1>3. line + 1 # Len(manifest) => manifest[line + 2].sectors \in Int
  BY DEF IInv, ManifestOK, LineOK
<1> QED
  BY <1>1, <1>2, <1>3 DEF ReadIds, LineOK

LEMMA HandlesTyped ==
  ASSUME IInv, line < Len(manifest), NEW h \in HandlesOf(manifest[line + 1])
  PROVE  IF manifest[line + 1].type = "null" THEN h \in {Wild, NoFile} \cup 1 .. Len(handles)
                                             ELSE h = Len(handles) + 1
<1>1. CASE entries = <<>>
  BY <1>1 DEF HandlesOf, Stale
<1>2. CASE entries # <<>>
  <2>1. Len(entries) \in 1 .. Len(entries)
    BY <1>2 DEF IInv, EntriesOK
  <2> QED
    BY <1>2, <2>1 DEF HandlesOf, Stale, IInv, EntriesOK
<1> QED
  BY <1>1, <1>2

LEMMA ParseLineKeeps ==
  ASSUME IInv, ParseLine
  PROVE  IInv'
<1> DEFINE l == manifest[line + 1]
<1> USE DEF IInv
<1>0. /\ pc = "parse" /\ line < Len(manifest)
      /\ UNCHANGED <<pc, files, manifest, at, output, image>>
  BY DEF ParseLine
<1>1. PICK h \in HandlesOf(l), ids \in ReadIds(l) :
        entries' = Append(entries, [sectors |-> l.sectors, type |-> l.type, handle |-> h,
                                    file |-> ids[1], channel |-> ids[2]])
  BY DEF ParseLine
<1> DEFINE e == [sectors |-> l.sectors, type |-> l.type, handle |-> h,
                 file |-> ids[1], channel |-> ids[2]]
<1>2. LineOK(l)
  BY <1>0 DEF ManifestOK
<1>3. ids[1] \in Int /\ ids[2] \in Int
  BY <1>0, IdsInt
<1>4. IF l.type = "null" THEN h \in {Wild, NoFile} \cup 1 .. Len(handles) ELSE h = Len(handles) + 1
  BY <1>0, HandlesTyped
<1>5. h \in Int
  BY <1>4 DEF Wild, NoFile, HandlesOK
<1>6. e \in EntryType
  BY <1>2, <1>3, <1>5 DEF EntryType, LineOK
<1>7. HandlesOK' /\ Len(handles') = IF l.type = "null" THEN Len(handles) ELSE Len(handles) + 1
  <2>1. CASE l.type = "null"
    <3>1. handles' = handles
      BY <2>1 DEF ParseLine
    <3> QED
      BY <2>1, <3>1, <1>0 DEF HandlesOK
  <2>2. CASE l.type # "null"
    <3> DEFINE new == [stream |-> l.stream, pos |-> 0, eof |-> FALSE]
    <3>1. handles' = Append(handles, new)
      BY <2>2 DEF ParseLine
    <3>2. new \in HandleType
      BY <2>2, <1>2 DEF HandleType, LineOK
    <3>3. 0 <= Len(files[l.stream])
      <4>1. AllMade(files[l.stream])
        BY <2>2, <1>2 DEF LineOK, FilesOK
      <4> QED
        BY <4>1 DEF AllMade, IsSeq
    <3>4. new.pos <= Len(files[new.stream]) /\ ~new.eof
      BY <3>3
    <3> HIDE DEF new, l
    <3>5. handles' \in Seq(HandleType) /\ Len(handles') = Len(handles) + 1
      BY <3>1, <3>2 DEF HandlesOK
    <3>6. \A k \in 1 .. Len(handles) + 1 :
            handles'[k] = IF k = Len(handles) + 1 THEN new ELSE handles[k]
      BY <3>1, <3>2 DEF HandlesOK
    <3> QED
      BY <2>2, <3>4, <3>5, <3>6, <1>0 DEF HandlesOK
  <2> QED
    BY <2>1, <2>2
<1>8. EntriesOK'
  <2>0. e.type = l.type /\ e.handle = h
    OBVIOUS
  <2> HIDE DEF e, l
  <2>1. entries' \in Seq(EntryType) /\ Len(entries') = Len(entries) + 1
    BY <1>1, <1>6 DEF EntriesOK, e
  <2>2. \A k \in 1 .. Len(entries) + 1 :
          entries'[k] = IF k = Len(entries) + 1 THEN e ELSE entries[k]
    BY <1>1, <1>6 DEF EntriesOK, e
  <2>3. Len(handles) \in Nat /\ Len(handles') \in Nat /\ Len(handles) <= Len(handles')
    BY <1>7 DEF HandlesOK
  <2>4. ASSUME NEW k \in 1 .. Len(entries)
        PROVE  /\ entries[k].handle \in {Wild, NoFile} \cup 1 .. Len(handles')
               /\ entries[k].type # "null" => entries[k].handle \in 1 .. Len(handles')
    BY <2>3 DEF EntriesOK
  <2>5. /\ h \in {Wild, NoFile} \cup 1 .. Len(handles')
        /\ l.type # "null" => h \in 1 .. Len(handles')
    BY <1>4, <1>7, <2>3
  <2> QED
    BY <2>0, <2>1, <2>2, <2>4, <2>5 DEF EntriesOK
<1>9. line' \in 0 .. Len(manifest)
  BY <1>0 DEF ParseLine, ManifestOK
<1>10. FilesOK' /\ ManifestOK' /\ PlaceOK' /\ ImageOK'
  BY <1>0, <1>9 DEF FilesOK, ManifestOK, PlaceOK, ImageOK
<1> QED
  BY <1>0, <1>7, <1>8, <1>10

LEMMA BeginChunkKeeps ==
  ASSUME IInv, BeginChunk
  PROVE  IInv'
<1> USE DEF IInv
<1>0. /\ pc = "chunk"
      /\ pc' \in {"trap", "slot", "build"}
      /\ UNCHANGED <<files, manifest, line, entries, handles, at, output, image>>
  BY DEF BeginChunk, AfterChunk
<1>1. PlaceOK'
  <2>1. CASE pc' = "slot"
    <3>1. CanRead
      BY <2>1 DEF BeginChunk, AfterChunk
    <3>2. 1 \in 1 .. Len(entries)
      BY <3>1 DEF CanRead, EntriesOK
    <3>a. entries[1] \in EntryType
      BY <3>2 DEF EntriesOK
    <3>3. entries[1].sectors \in Nat \ {0}
      BY <3>a DEF EntryType
    <3>4. at = <<1, 1>>
      BY <1>0 DEF PlaceOK
    <3> QED
      BY <2>1, <3>2, <3>3, <3>4, <1>0 DEF PlaceOK
  <2>2. CASE pc' # "slot"
    BY <2>2, <1>0 DEF PlaceOK
  <2> QED
    BY <2>1, <2>2
<1>2. FilesOK' /\ ManifestOK' /\ EntriesOK' /\ HandlesOK' /\ ImageOK'
  BY <1>0 DEF FilesOK, ManifestOK, EntriesOK, HandlesOK, ImageOK
<1> QED
  BY <1>0, <1>1, <1>2

\* The loops stay within an entry.
LEMMA FollowingOK ==
  ASSUME IInv, pc = "slot"
  PROVE  /\ Following \in Nat \X Nat
         /\ Following[1] \in 1 .. Len(entries)
         /\ Following[2] \in 1 .. entries[Following[1]].sectors
<1>1. /\ at \in Nat \X Nat
      /\ at[1] \in 1 .. Len(entries) /\ at[2] \in 1 .. entries[at[1]].sectors
  BY DEF IInv, PlaceOK
<1>2. \A i \in 1 .. Len(entries) : entries[i].sectors \in Nat \ {0}
  <2> TAKE i \in 1 .. Len(entries)
  <2>1. entries[i] \in EntryType
    BY DEF IInv, EntriesOK
  <2> QED
    BY <2>1 DEF EntryType
<1>3. Len(entries) \in Nat
  BY DEF IInv, EntriesOK
<1>4. CASE at[2] < entries[at[1]].sectors
  BY <1>1, <1>2, <1>4 DEF Following
<1>5. CASE ~(at[2] < entries[at[1]].sectors) /\ at[1] < Len(entries)
  BY <1>1, <1>2, <1>3, <1>5 DEF Following
<1>6. CASE ~(at[2] < entries[at[1]].sectors) /\ ~(at[1] < Len(entries))
  BY <1>1, <1>2, <1>3, <1>6 DEF Following
<1> QED
  BY <1>4, <1>5, <1>6

LEMMA WriteSectorKeeps ==
  ASSUME IInv, WriteSector
  PROVE  IInv'
<1> DEFINE e == entries[at[1]]
<1> DEFINE h == handles[e.handle]
<1> DEFINE s == files[h.stream][h.pos + 1]
<1> DEFINE written == IF e.type = "raw" THEN s ELSE Patch(s, e.file, e.channel)
<1> USE DEF IInv
<1>0. /\ pc = "slot"
      /\ at' = Following
      /\ pc' = IF Following = <<1, 1>> THEN "chunk" ELSE "slot"
      /\ UNCHANGED <<files, manifest, line, entries, image>>
  BY DEF WriteSector
<1>1. /\ at[1] \in 1 .. Len(entries) /\ e \in EntryType
      /\ e.type # "null" => e.handle \in 1 .. Len(handles)
  BY <1>0 DEF PlaceOK, EntriesOK
<1>2. AllMade(output') /\ HandlesOK' /\ Len(handles') = Len(handles)
  <2>1. CASE e.type = "null"
    <3>1. output' = Append(output, Empty) /\ handles' = handles
      BY <2>1 DEF WriteSector
    <3> QED
      BY <3>1, <1>0, EmptyMade, AppendMade DEF ImageOK, HandlesOK
  <2>2. CASE e.type # "null" /\ h.pos = Len(files[h.stream])
    <3>1. output' = Append(output, Empty) /\ handles' = [handles EXCEPT ![e.handle].eof = TRUE]
      BY <2>2 DEF WriteSector
    <3>2. e.handle \in 1 .. Len(handles) /\ h \in HandleType
      BY <1>1, <2>2 DEF HandlesOK
    <3> DEFINE new == [h EXCEPT !.eof = TRUE]
    <3>3. handles' = [handles EXCEPT ![e.handle] = new]
      BY <3>1
    <3>4. new \in HandleType /\ new.pos = h.pos /\ new.stream = h.stream
      BY <3>2 DEF HandleType
    <3>5. new.pos = Len(files[new.stream])
      BY <3>4, <2>2
    <3>a. new.pos \in Nat
      BY <3>4 DEF HandleType
    <3> HIDE DEF new, h, e
    <3>6. /\ handles' \in Seq(HandleType) /\ Len(handles') = Len(handles)
          /\ \A k \in 1 .. Len(handles) : handles'[k] = IF k = e.handle THEN new ELSE handles[k]
      BY <3>2, <3>3, <3>4 DEF HandlesOK
    <3>7. HandlesOK'
      BY <3>5, <3>a, <3>6, <1>0 DEF HandlesOK
    <3>8. AllMade(output')
      BY <3>1, EmptyMade, AppendMade DEF ImageOK
    <3> QED
      BY <3>6, <3>7, <3>8
  <2>3. CASE e.type # "null" /\ h.pos # Len(files[h.stream])
    <3>1. output' = Append(output, written) /\ handles' = [handles EXCEPT ![e.handle].pos = h.pos + 1]
      BY <2>3 DEF WriteSector
    <3>2. e.handle \in 1 .. Len(handles) /\ h \in HandleType
      BY <1>1, <2>3 DEF HandlesOK
    <3>3. h.stream \in Streams /\ h.pos \in Nat
      BY <3>2 DEF HandleType
    <3>4. h.pos <= Len(files[h.stream]) /\ (h.eof => h.pos = Len(files[h.stream]))
      BY <3>2 DEF HandlesOK
    <3>5. AllMade(files[h.stream])
      BY <3>3 DEF FilesOK
    <3>6. Len(files[h.stream]) \in Nat
      BY <3>5 DEF AllMade, IsSeq
    <3>7. h.pos + 1 \in 1 .. Len(files[h.stream]) /\ ~h.eof
      BY <2>3, <3>3, <3>4, <3>6
    <3>8. Made(s)
      BY <3>5, <3>7 DEF AllMade
    <3>9. e.file \in Int /\ e.channel \in Int
      BY <1>1 DEF EntryType
    <3>10. Made(Patch(s, e.file, e.channel))
      BY <3>8, <3>9, PatchMade
    <3>11. Made(written)
      BY <3>8, <3>10
    <3> HIDE DEF written
    <3>12. AllMade(output')
      BY <3>1, <3>11, AppendMade DEF ImageOK
    <3> DEFINE new == [h EXCEPT !.pos = h.pos + 1]
    <3>13. handles' = [handles EXCEPT ![e.handle] = new]
      BY <3>1
    <3>14. new \in HandleType /\ new.pos = h.pos + 1 /\ new.stream = h.stream /\ new.eof = h.eof
      BY <3>2, <3>3 DEF HandleType
    <3>15. new.pos <= Len(files[new.stream]) /\ ~new.eof
      BY <3>14, <3>7
    <3> HIDE DEF new, h, e
    <3>16. /\ handles' \in Seq(HandleType) /\ Len(handles') = Len(handles)
           /\ \A k \in 1 .. Len(handles) : handles'[k] = IF k = e.handle THEN new ELSE handles[k]
      BY <3>2, <3>13, <3>14 DEF HandlesOK
    <3>17. HandlesOK'
      BY <3>15, <3>16, <1>0 DEF HandlesOK
    <3> QED
      BY <3>12, <3>16, <3>17
  <2> QED
    BY <2>1, <2>2, <2>3
<1>3. PlaceOK'
  BY <1>0, FollowingOK DEF PlaceOK
<1>4. FilesOK' /\ ManifestOK' /\ EntriesOK' /\ ImageOK'
  BY <1>0, <1>2 DEF FilesOK, ManifestOK, EntriesOK, ImageOK
<1> QED
  BY <1>0, <1>2, <1>3, <1>4

LEMMA BuildKeeps ==
  ASSUME IInv, Build
  PROVE  IInv'
<1> USE DEF IInv
<1>0. /\ pc' = "done"
      /\ image' = [n \in 1 .. Len(output) |-> EncodeSector(output[n])]
      /\ UNCHANGED <<files, manifest, line, entries, handles, at, output>>
  BY DEF Build
<1>1. Len(output) \in Nat
  BY DEF ImageOK, AllMade, IsSeq
<1>2. Len(image') = Len(output)
  BY <1>0, <1>1, FunctionIsSeq
<1>3. \A n \in 1 .. Len(output) : Valid(EncodeSector(output[n]))
  BY EncodedValid DEF ImageOK, AllMade
<1>4. ImageOK'
  BY <1>0, <1>2, <1>3 DEF ImageOK
<1>5. FilesOK' /\ ManifestOK' /\ EntriesOK' /\ HandlesOK' /\ PlaceOK'
  BY <1>0 DEF FilesOK, ManifestOK, EntriesOK, HandlesOK, PlaceOK
<1> QED
  BY <1>0, <1>4, <1>5

LEMMA InvariantStep == IInv /\ [Next]_vars => IInv'
<1> SUFFICES ASSUME IInv, [Next]_vars PROVE IInv'
  OBVIOUS
<1>1. CASE ParseLine
  BY <1>1, ParseLineKeeps
<1>2. CASE EndManifest
  BY <1>2 DEF EndManifest, IInv, FilesOK, ManifestOK, EntriesOK, HandlesOK, PlaceOK, ImageOK
<1>3. CASE BeginChunk
  BY <1>3, BeginChunkKeeps
<1>4. CASE WriteSector
  BY <1>4, WriteSectorKeeps
<1>5. CASE Build
  BY <1>5, BuildKeeps
<1>6. CASE UNCHANGED vars
  BY <1>6 DEF vars, IInv, FilesOK, ManifestOK, EntriesOK, HandlesOK, PlaceOK, ImageOK
<1> QED
  BY <1>1, <1>2, <1>3, <1>4, <1>5, <1>6 DEF Next

LEMMA InvariantHolds == Spec => []IInv
  BY Initially, InvariantStep, PTL DEF Spec

-----------------------------------------------------------------------------
(* The theorems. *)

\* The loops stay within their entry and no file is read past its end, however
\* many entries there are, up to the places of entries[], and however their
\* numbers were left over in `e`.
THEOREM TypeCorrect == Spec => []TypeOK
<1>1. IInv => TypeOK
  <2> SUFFICES ASSUME IInv PROVE TypeOK
    OBVIOUS
  <2>1. \A h \in 1 .. Len(handles) : handles[h].pos \in Nat /\ Len(files[handles[h].stream]) \in Nat
    <3> TAKE h \in 1 .. Len(handles)
    <3>1. handles[h] \in HandleType
      BY DEF IInv, HandlesOK
    <3>2. handles[h].pos \in Nat /\ handles[h].stream \in Streams
      BY <3>1 DEF HandleType
    <3>3. AllMade(files[handles[h].stream])
      BY <3>2 DEF IInv, FilesOK
    <3> QED
      BY <3>2, <3>3 DEF AllMade, IsSeq
  <2>2. \A h \in 1 .. Len(handles) :
          /\ handles[h].pos \in 0 .. Len(files[handles[h].stream])
          /\ handles[h].eof => handles[h].pos = Len(files[handles[h].stream])
    BY <2>1 DEF IInv, HandlesOK
  <2>3. pc = "slot" => /\ at[1] \in 1 .. Len(entries)
                       /\ at[2] \in 1 .. entries[at[1]].sectors
    BY DEF IInv, PlaceOK
  <2>4. \A i \in 1 .. Len(entries) :
          /\ entries[i].handle \in {Wild, NoFile} \cup 1 .. Len(handles)
          /\ entries[i].type # "null" => entries[i].handle \in 1 .. Len(handles)
    BY DEF IInv, EntriesOK
  <2> QED
    BY <2>2, <2>3, <2>4 DEF IInv, TypeOK, ManifestOK
<1> QED
  BY <1>1, InvariantHolds, PTL

\* Whatever the encoder wrote and the interleaver patched, or left unpatched,
\* and with whatever numbers: every sector pscd-new puts on the disc has
\* subheaders that agree and the checksum of what is stored.
THEOREM SectorsValidHolds == Spec => []SectorsValid
<1>1. IInv => SectorsValid
  BY DEF IInv, ImageOK, SectorsValid, Valid
<1> QED
  BY <1>1, InvariantHolds, PTL
-----------------------------------------------------------------------------
(***************************************************************************)
(* What a sector keeps on its way: its place in its stream, and the file   *)
(* and channel in its second subheader.                                    *)
(***************************************************************************)
Tagged(s, st, m) == SubSeq(s.data, 1, 2) = <<st, m>>

OfXa(s) ==
  /\ s.mode = 2 /\ Form2(s)
  /\ s.copy.file = EncoderIds[1] /\ s.copy.channel = EncoderIds[2]

LEMMA TagKept ==
  ASSUME NEW st, NEW i, NEW x
  PROVE  /\ SubSeq(<<st, i>>, 1, 2) = <<st, i>>
         /\ SubSeq(Append(<<st, i>>, x), 1, 2) = <<st, i>>
<1> DEFINE S == {st, i, x}
           q == Append(<<st, i>>, x)
<1>1. <<st, i>> \in Seq(S) /\ q \in Seq(S) /\ Len(q) = 3
  OBVIOUS
<1>2. q[1] = st /\ q[2] = i
  OBVIOUS
<1>3. ASSUME NEW r \in Seq(S), Len(r) >= 2, r[1] = st, r[2] = i
      PROVE  SubSeq(r, 1, 2) = <<st, i>>
  <2> DEFINE t == SubSeq(r, 1, 2)
  <2>1. t \in Seq(S) /\ Len(t) = 2 /\ \A k \in 1 .. 2 : t[k] = r[k]
    BY <1>3, SubSeqProperties
  <2> HIDE DEF t
  <2>2. t = <<st, i>>
    BY <1>1, <1>3, <2>1, SeqEqual
  <2> QED
    BY <2>2 DEF t
<1> HIDE DEF q, S
<1>4. SubSeq(<<st, i>>, 1, 2) = <<st, i>>
  <2>1. PICK r : r = <<st, i>>
    OBVIOUS
  <2>2. r \in Seq(S) /\ Len(r) >= 2 /\ r[1] = st /\ r[2] = i
    BY <1>1, <2>1
  <2> QED
    BY <1>3, <2>1, <2>2
<1>5. SubSeq(q, 1, 2) = <<st, i>>
  BY <1>1, <1>2, <1>3
<1> QED
  BY <1>4, <1>5 DEF q

LEMMA SectorFields ==
  ASSUME NEW file, NEW channel, NEW flags, NEW data
  PROVE  \E e : Checked([InitSector(file, channel, flags) EXCEPT !.data = data])
                  \in Fields({2}, {Subheader(file, channel % 32, flags)},
                             {Subheader(file, channel % 32, flags)}, {data}, {e})
<1> DEFINE sub == Subheader(file, channel % 32, flags)
<1> DEFINE i == InitSector(file, channel, flags)
<1> DEFINE s == [i EXCEPT !.data = data]
<1>2. Empty \in Fields({0}, {Subheader(0, 0, {})}, {Subheader(0, 0, {})}, {<<>>}, {NoEdc})
  BY DEF Fields, Empty
<1>3. i = [Empty EXCEPT !.mode = 2, !.sub = sub, !.copy = sub]
  BY DEF InitSector
<1> HIDE DEF sub, i
<1>4. i \in Fields({2}, {sub}, {sub}, {<<>>}, {NoEdc})
  BY <1>2, <1>3 DEF Fields
<1>5. s \in Fields({2}, {sub}, {sub}, {data}, {NoEdc})
  BY <1>4 DEF Fields
<1> HIDE DEF s
<1>6. Checked(s) \in Fields({2}, {sub}, {sub}, {data}, {EdcOf(s)})
  BY <1>5 DEF Fields, Checked
<1>7. PICK e : e = EdcOf(s)
  OBVIOUS
<1>8. Checked(s) \in Fields({2}, {sub}, {sub}, {data}, {e})
  BY <1>6, <1>7
<1> QED
  BY <1>8 DEF s, i, sub

LEMMA AudioOfXa ==
  ASSUME NEW st, NEW i
  PROVE  LET s == AudioSector(EncoderIds[1], EncoderIds[2], <<st, i>>) IN
         /\ Tagged(s, st, i) /\ OfXa(s)
         /\ Tagged(Finalize(s), st, i) /\ OfXa(Finalize(s))
<1> DEFINE s == AudioSector(EncoderIds[1], EncoderIds[2], <<st, i>>)
           sub == Subheader(EncoderIds[1], EncoderIds[2] % 32, Audio)
<1>1. PICK e : s \in Fields({2}, {sub}, {sub}, {<<st, i>>}, {e})
  BY SectorFields DEF AudioSector
<1>2. EncoderIds[2] % 32 = EncoderIds[2]
  BY StreamAssumption
<1>3. sub.file = EncoderIds[1] /\ sub.channel = EncoderIds[2] /\ "form2" \in sub.flags
      /\ sub = [file |-> sub.file, channel |-> sub.channel, flags |-> sub.flags]
  BY <1>2 DEF Subheader, Audio
<1> HIDE DEF s, sub
<1>4. Tagged(s, st, i) /\ OfXa(s)
  BY <1>1, <1>3, TagKept DEF Fields, Tagged, OfXa, Form2
<1> DEFINE marked == [sub EXCEPT !.flags = @ \cup {"eof"}]
           data == Append(<<st, i>>, "marked")
<1>5. "form2" \in marked.flags
  BY <1>3
<1>6. Finalize(s) = [s EXCEPT !.sub = marked, !.data = data]
  BY <1>1 DEF Finalize, Fields
<1> HIDE DEF marked
<1>7. SubSeq(data, 1, 2) = <<st, i>>
  BY TagKept
<1> HIDE DEF data
<1>8. Finalize(s) \in Fields({2}, {marked}, {sub}, {data}, {e})
  BY <1>1, <1>6 DEF Fields
<1>9. Tagged(Finalize(s), st, i) /\ OfXa(Finalize(s))
  BY <1>3, <1>5, <1>7, <1>8 DEF Fields, Tagged, OfXa, Form2
<1> QED
  BY <1>4, <1>9 DEF s

LEMMA VideoTagged ==
  ASSUME NEW st, NEW i
  PROVE  Tagged(VideoSector(EncoderIds[1], EncoderIds[2], <<st, i>>), st, i)
<1> DEFINE s == VideoSector(EncoderIds[1], EncoderIds[2], <<st, i>>)
<1>1. \E u, e : s \in Fields({2}, {u}, {u}, {<<st, i>>}, {e})
  BY SectorFields DEF VideoSector
<1> HIDE DEF s
<1>2. Tagged(s, st, i)
  BY <1>1, TagKept DEF Fields, Tagged
<1> QED
  BY <1>2 DEF s

\* A file's sectors are in order, and those of an xa file are of the encoder's
\* file and channel.
FileOK(st, f) ==
  \A m \in 1 .. Len(f) : Tagged(f[m], st, m) /\ (Kind[st] # "str" => OfXa(f[m]))

LEMMA EncodedOK ==
  ASSUME NEW st \in Streams, NEW n \in Lengths
  PROVE  FileOK(st, Encoded(st, n))
<1>0. n \in Nat
  BY StreamAssumption
<1>1. CASE Kind[st] = "str"
  <2> DEFINE k == n * (VideoRun + 1)
             f == StrFile(st, n)
  <2>1. k \in Nat
    BY <1>0, StreamAssumption
  <2>2. f = [i \in 1 .. k |-> IF i % (VideoRun + 1) = 0
                              THEN AudioSector(EncoderIds[1], EncoderIds[2], <<st, i>>)
                              ELSE VideoSector(EncoderIds[1], EncoderIds[2], <<st, i>>)]
    BY DEF StrFile
  <2> HIDE DEF f, k
  <2>3. Len(f) = k
    BY <2>1, <2>2
  <2>4. \A m \in 1 .. k : Tagged(f[m], st, m)
    BY <2>2, AudioOfXa, VideoTagged
  <2> QED
    BY <1>1, <2>3, <2>4 DEF FileOK, Encoded, f
<1>2. CASE Kind[st] # "str"
  <2> DEFINE k == (n + PerSector - 1) \div PerSector
             f == XaFile(st, n)
             sector(i) == AudioSector(EncoderIds[1], EncoderIds[2], <<st, i>>)
  <2>1. k \in Nat
    <3>1. n + PerSector - 1 \in Nat /\ PerSector \in Nat \ {0}
      BY <1>0, StreamAssumption
    <3> QED
      BY <3>1, DivNat
  <2>2. f = [i \in 1 .. k |-> IF i = k THEN Finalize(sector(i)) ELSE sector(i)]
    BY DEF XaFile
  <2>3. \A i : /\ Tagged(sector(i), st, i) /\ OfXa(sector(i))
               /\ Tagged(Finalize(sector(i)), st, i) /\ OfXa(Finalize(sector(i)))
    BY AudioOfXa
  <2> HIDE DEF f, k, sector
  <2>4. Len(f) = k
    BY <2>1, <2>2
  <2>5. \A m \in 1 .. k : Tagged(f[m], st, m) /\ OfXa(f[m])
    BY <2>2, <2>3
  <2> QED
    BY <1>2, <2>4, <2>5 DEF FileOK, Encoded, f
<1> QED
  BY <1>1, <1>2

\* The patch changes no payload, and gives both subheaders its numbers.
LEMMA PatchKeeps ==
  ASSUME NEW s, Made(s), NEW file \in Int, NEW channel \in Int
  PROVE  LET p == Patch(s, file, channel) IN
         /\ p.data = s.data /\ p.mode = s.mode /\ p.sub.flags = s.sub.flags
         /\ p.copy.file = IF file >= 0 THEN file % 256 ELSE s.copy.file
         /\ p.copy.channel = IF channel >= 0 THEN channel % 32 ELSE s.copy.channel
<1> DEFINE patched(sub) ==
        [sub EXCEPT !.file    = IF file >= 0 THEN file % 256 ELSE @,
                    !.channel = IF channel >= 0 THEN channel % 32 ELSE @]
<1>1. ASSUME NEW sub \in Subheaders
      PROVE  /\ patched(sub).flags = sub.flags
             /\ patched(sub).file = IF file >= 0 THEN file % 256 ELSE sub.file
             /\ patched(sub).channel = IF channel >= 0 THEN channel % 32 ELSE sub.channel
  BY DEF Subheaders
<1>2. s.sub \in Subheaders /\ s.copy \in Subheaders
  BY DEF Made, Fields
<1>3. Patch(s, file, channel)
        = [s EXCEPT !.sub = patched(s.sub), !.copy = patched(s.copy), !.edc = Forced]
  BY DEF Patch
<1> HIDE DEF patched
<1>4. Patch(s, file, channel)
        \in Fields({s.mode}, {patched(s.sub)}, {patched(s.copy)}, {s.data}, {Forced})
  BY <1>3 DEF Made, Fields
<1>5. PICK p : p = Patch(s, file, channel)
  OBVIOUS
<1>6. /\ p.data = s.data /\ p.mode = s.mode
      /\ p.sub = patched(s.sub) /\ p.copy = patched(s.copy)
  BY <1>4, <1>5 DEF Fields
<1> QED
  BY <1>1, <1>2, <1>5, <1>6

\* The image builder changes no payload, and takes the numbers of a sector of
\* form 2 from the second subheader.
LEMMA EncodeKeeps ==
  ASSUME NEW s, Made(s)
  PROVE  /\ EncodeSector(s).data = s.data
         /\ s.mode = 2 /\ Form2(s) =>
              /\ EncodeSector(s).sub.file = s.copy.file
              /\ EncodeSector(s).sub.channel = s.copy.channel
<1>1. CASE s.mode = 0
  BY <1>1 DEF EncodeSector
<1>2. CASE s.mode = 2 /\ Form2(s)
  <2> DEFINE sub == [s.copy EXCEPT !.flags = @ \cup {"form2"}]
  <2> DEFINE c == [s EXCEPT !.sub = sub, !.copy = sub]
  <2>1. EncodeSector(s) = Checked(c)
    BY <1>2 DEF EncodeSector, Form2Sector, Made
  <2>2. sub.file = s.copy.file /\ sub.channel = s.copy.channel
    BY DEF Made, Fields, Subheaders
  <2> HIDE DEF sub
  <2>3. c \in Fields({2}, {sub}, {sub}, {s.data}, {s.edc})
    BY <1>2 DEF Made, Fields
  <2> HIDE DEF c
  <2>4. Checked(c) \in Fields({2}, {sub}, {sub}, {s.data}, {EdcOf(c)})
    BY <2>3 DEF Fields, Checked
  <2> QED
    BY <1>2, <2>1, <2>2, <2>4 DEF Fields
<1>3. CASE s.mode = 2 /\ ~Form2(s)
  <2> DEFINE sub == Subheader(0, 0, {})
  <2> DEFINE c == [s EXCEPT !.sub = sub, !.copy = sub]
  <2>1. EncodeSector(s) = Checked(c)
    BY <1>3 DEF EncodeSector, Form1Sector
  <2> HIDE DEF sub
  <2>2. c \in Fields({2}, {sub}, {sub}, {s.data}, {s.edc})
    BY <1>3 DEF Made, Fields
  <2> HIDE DEF c
  <2>3. Checked(c) \in Fields({2}, {sub}, {sub}, {s.data}, {EdcOf(c)})
    BY <2>2 DEF Fields, Checked
  <2> QED
    BY <1>3, <2>1, <2>3 DEF Fields
<1> QED
  BY <1>1, <1>2, <1>3 DEF Made, Fields

LEMMA EncodeEmpty == EncodeSector(Empty) = Empty
  BY DEF EncodeSector, Empty
-----------------------------------------------------------------------------
(***************************************************************************)
(* Before: the sum of the lines' sectors, by the least counterexample.     *)
(***************************************************************************)
LEMMA MinExists ==
  ASSUME NEW S \in SUBSET Nat, S # {}
  PROVE  \E m \in S : \A w \in S : m <= w
<1>1. PICK x \in S : \A y \in S : ~(<<y, x>> \in OpToRel(<, Nat))
  BY NatLessThanWellFounded, WFMin
<1>2. \A y \in S : ~(y < x)
  BY <1>1 DEF OpToRel
<1> QED
  BY <1>2

\* f holds the sums of the first n lines of d.
IsSum(f, d, n) ==
  f = [m \in 0 .. n |-> IF m = 0 THEN 0 ELSE f[m - 1] + d[m].sectors]

LEMMA SumExists ==
  ASSUME NEW d, NEW n \in Nat
  PROVE  \E f : IsSum(f, d, n)
<1> DEFINE Missing == {k \in Nat : ~\E f : IsSum(f, d, k)}
<1>1. SUFFICES ASSUME Missing # {} PROVE FALSE
  OBVIOUS
<1>2. PICK k \in Missing : \A w \in Missing : k <= w
  BY <1>1, MinExists
<1>3. CASE k = 0
  <2> DEFINE f == [m \in 0 .. 0 |-> 0]
  <2>1. f = [m \in 0 .. 0 |-> IF m = 0 THEN 0 ELSE f[m - 1] + d[m].sectors]
    OBVIOUS
  <2> QED
    BY <1>2, <1>3, <2>1 DEF IsSum
<1>4. CASE k # 0
  <2>1. k - 1 \in Nat /\ k - 1 \notin Missing
    BY <1>2, <1>4
  <2>2. PICK f : IsSum(f, d, k - 1)
    BY <2>1
  <2> DEFINE g == [m \in 0 .. k |-> IF m = k THEN f[k - 1] + d[k].sectors ELSE f[m]]
  <2>3. \A m \in 0 .. k - 1 : g[m] = f[m]
    BY <2>1
  <2>4. \A m \in 0 .. k : g[m] = IF m = 0 THEN 0 ELSE g[m - 1] + d[m].sectors
    <3>1. \A m \in 0 .. k - 1 : f[m] = IF m = 0 THEN 0 ELSE f[m - 1] + d[m].sectors
      BY <2>2 DEF IsSum
    <3>2. TAKE m \in 0 .. k
    <3>3. CASE m = k
      BY <1>4, <2>1, <2>3, <3>3
    <3>4. CASE m # k
      BY <2>1, <2>3, <3>1, <3>4
    <3> QED
      BY <3>3, <3>4
  <2>5. IsSum(g, d, k)
    BY <2>4 DEF IsSum
  <2> QED
    BY <1>2, <2>5
<1> QED
  BY <1>3, <1>4

\* Two such functions agree where both are defined.
LEMMA SumUnique ==
  ASSUME NEW d, NEW n \in Nat, NEW l \in Nat, NEW k \in Nat, k <= n, k <= l, NEW f, NEW g,
         IsSum(f, d, l), IsSum(g, d, n)
  PROVE  f[k] = g[k]
<1> DEFINE Differ == {m \in Nat : m <= k /\ f[m] # g[m]}
<1>1. SUFFICES ASSUME Differ # {} PROVE FALSE
  OBVIOUS
<1>2. PICK m \in Differ : \A w \in Differ : m <= w
  BY <1>1, MinExists
<1>3. /\ f[m] = IF m = 0 THEN 0 ELSE f[m - 1] + d[m].sectors
      /\ g[m] = IF m = 0 THEN 0 ELSE g[m - 1] + d[m].sectors
  BY <1>2 DEF IsSum
<1>4. m # 0 /\ m - 1 \in Nat /\ m - 1 \notin Differ
  BY <1>2, <1>3
<1> QED
  BY <1>2, <1>3, <1>4

\* The sums are naturals, since the counts are.
LEMMA SumNatural ==
  ASSUME NEW d, NEW n \in Nat, \A m \in 1 .. n : d[m].sectors \in Nat, NEW f, NEW l \in Nat,
         n <= l, IsSum(f, d, l)
  PROVE  f[n] \in Nat
<1> DEFINE Odd == {m \in Nat : m <= n /\ f[m] \notin Nat}
<1>1. SUFFICES ASSUME Odd # {} PROVE FALSE
  OBVIOUS
<1>2. PICK m \in Odd : \A w \in Odd : m <= w
  BY <1>1, MinExists
<1>3. f[m] = IF m = 0 THEN 0 ELSE f[m - 1] + d[m].sectors
  BY <1>2 DEF IsSum
<1>4. m # 0 /\ m - 1 \in Nat /\ m - 1 \notin Odd
  BY <1>2, <1>3
<1> QED
  BY <1>2, <1>3, <1>4

LEMMA BeforeSum ==
  ASSUME NEW n \in Nat \ {0}
  PROVE  \E f : IsSum(f, manifest, n) /\ f[n - 1] = Before(n)
<1> DEFINE s == CHOOSE f : f = [m \in 0 .. n |-> IF m = 0 THEN 0 ELSE f[m - 1] + manifest[m].sectors]
<1>1. \E f : f = [m \in 0 .. n |-> IF m = 0 THEN 0 ELSE f[m - 1] + manifest[m].sectors]
  BY SumExists DEF IsSum
<1>2. s = [m \in 0 .. n |-> IF m = 0 THEN 0 ELSE s[m - 1] + manifest[m].sectors]
  BY <1>1
<1>3. Before(n) = s[n - 1]
  BY DEF Before
<1> HIDE DEF s
<1> QED
  BY <1>2, <1>3 DEF IsSum

\* The lines follow each other.
LEMMA BeforeNext ==
  ASSUME NEW n \in Nat \ {0}
  PROVE  /\ Before(1) = 0
         /\ Before(n + 1) = Before(n) + manifest[n].sectors
         /\ (\A m \in 1 .. n - 1 : manifest[m].sectors \in Nat) => Before(n) \in Nat
<1>1. PICK z : IsSum(z, manifest, 1) /\ z[0] = Before(1)
  BY BeforeSum
<1>2. PICK f : IsSum(f, manifest, n) /\ f[n - 1] = Before(n)
  BY BeforeSum
<1>3. PICK g : IsSum(g, manifest, n + 1) /\ g[n] = Before(n + 1)
  BY BeforeSum, n + 1 \in Nat \ {0}, n + 1 - 1 = n
<1>4. z[0] = 0
  BY <1>1 DEF IsSum
<1>5. f[n - 1] = g[n - 1]
  BY <1>2, <1>3, SumUnique, n + 1 \in Nat, n - 1 \in Nat
<1>6. g[n] = g[n - 1] + manifest[n].sectors
  BY <1>3 DEF IsSum
<1>7. (\A m \in 1 .. n - 1 : manifest[m].sectors \in Nat) => f[n - 1] \in Nat
  BY <1>2, SumNatural, n - 1 \in Nat
<1> QED
  BY <1>1, <1>2, <1>3, <1>4, <1>5, <1>6, <1>7
-----------------------------------------------------------------------------
(***************************************************************************)
(* The invariant of the interleaving: c whole chunks and a part of the     *)
(* next are written, and of every line the first Count(c, at, n) sectors   *)
(* are in their slots, those of its file and then empty ones.              *)
(***************************************************************************)
\* The sectors line n has had after c chunks, when the loop is at a.
Count(c, a, n) ==
  c * manifest[n].sectors
    + (IF n < a[1] THEN manifest[n].sectors ELSE IF n = a[1] THEN a[2] - 1 ELSE 0)

Fed(n)   == handles[entries[n].handle]
Feeds(n) == manifest[n].type # "null"
IdsOf(n) == IF manifest[n].ids = <<>> THEN <<0, 0>> ELSE manifest[n].ids

\* Every line parsed has its entry, and a handle no other line has.
Lined ==
  \A n \in 1 .. line :
    /\ entries[n].sectors = manifest[n].sectors /\ entries[n].type = manifest[n].type
    /\ Feeds(n) => Fed(n).stream = manifest[n].stream
    /\ IsXa(manifest[n]) => <<entries[n].file, entries[n].channel>> = IdsOf(n)

Apart ==
  \A n, k \in 1 .. line : n # k /\ Feeds(n) /\ Feeds(k) => entries[n].handle # entries[k].handle

Unread == output = <<>> /\ \A h \in 1 .. Len(handles) : handles[h].pos = 0 /\ ~handles[h].eof

Parsed ==
  /\ Len(entries) = line /\ Lined /\ Apart
  /\ IF pc = "parse" THEN Unread ELSE line = Len(manifest)

\* Sector m of line n as the interleaver writes it.
Piece(n, m) ==
  LET s == files[manifest[n].stream][m] IN
  IF manifest[n].type = "raw" THEN s ELSE Patch(s, entries[n].file, entries[n].channel)

Least(a, b) == IF a <= b THEN a ELSE b

InSlots(n, k) ==
  \A m \in 1 .. k :
    /\ Slot(n, m) \in 1 .. Len(output)
    /\ output[Slot(n, m)] = IF m <= Len(Held(n)) THEN Piece(n, m) ELSE Empty

FedBy(n, k) ==
  Feeds(n) => /\ Fed(n).pos = Least(k, Len(Held(n)))
              /\ Fed(n).eof => k > Len(Held(n))

Woven(c) ==
  /\ Len(output) = c * Turn + Before(at[1]) + at[2] - 1
  /\ \A n \in 1 .. Len(manifest) : InSlots(n, Count(c, at, n)) /\ FedBy(n, Count(c, at, n))

WovenInv ==
  /\ Parsed
  /\ pc \in {"chunk", "slot", "build", "done"} => \E c \in Nat : Woven(c)
  /\ pc \in {"chunk", "build", "done"} => at = <<1, 1>>
  /\ pc \in {"build", "done"} => \A n \in 1 .. Len(manifest) : Feeds(n) => Fed(n).eof
  /\ pc = "done" => image = [i \in 1 .. Len(output) |-> EncodeSector(output[i])]

StreamInv ==
  /\ IInv
  /\ \A st \in Streams : FileOK(st, files[st])
  /\ \A n \in 1 .. Len(manifest) : manifest[n] \in Lines
  /\ Len(manifest) >= 1
  /\ NumbersGiven => WovenInv

LEMMA StreamInit == Init => StreamInv
<1> SUFFICES ASSUME Init PROVE StreamInv
  OBVIOUS
<1>1. \A st \in Streams : FileOK(st, files[st])
  <2>1. PICK n \in [Streams -> Lengths] : files = [st \in Streams |-> Encoded(st, n[st])]
    BY DEF Init
  <2>2. \A st \in Streams : FileOK(st, Encoded(st, n[st]))
    BY EncodedOK
  <2> QED
    BY <2>1, <2>2
<1>2. Len(manifest) >= 1 /\ \A n \in 1 .. Len(manifest) : manifest[n] \in Lines
  <2>1. PICK n \in 1 .. MaxLines : manifest \in [1 .. n -> Lines]
    BY DEF Init
  <2>2. n \in Nat /\ n >= 1
    BY ManifestAssumption
  <2>3. Len(manifest) = n
    BY <2>1, <2>2
  <2> QED
    BY <2>1, <2>2, <2>3
<1>3. Parsed
  BY DEF Init, Parsed, Lined, Apart, Unread
<1>4. WovenInv
  BY <1>3 DEF Init, WovenInv
<1> QED
  BY <1>1, <1>2, <1>4, Initially DEF StreamInv

\* The position of one sector in a chunk.
LEMMA DivModOf ==
  ASSUME NEW c \in Nat, NEW s \in Nat \ {0}, NEW j \in 0 .. s - 1
  PROVE  (c * s + j) \div s = c /\ (c * s + j) % s = j
<1> DEFINE n == c * s + j
<1>0. n \in Nat
  OBVIOUS
<1>1. PICK q \in Int, r \in 0 .. s - 1 : n = s * q + r /\ q = n \div s /\ r = n % s
  <2>1. n \div s \in Int /\ n % s \in 0 .. s - 1 /\ n = s * (n \div s) + (n % s)
    BY <1>0
  <2> QED
    BY <2>1
<1>2. s * (c - q) = r - j
  BY <1>1
<1>3. c - q \in Int /\ s * (c - q) < s /\ s * (c - q) > -s
  BY <1>1, <1>2
<1>4. c - q = 0
  BY <1>3
<1>5. s * (c - q) = 0
  BY <1>4
<1>6. r - j = 0
  BY <1>2, <1>5
<1>7. r = j /\ q = c
  BY <1>4, <1>6
<1> QED
  BY <1>1, <1>7, Zenon

\* What no step after the first changes.
LEMMA SameLines ==
  ASSUME manifest' = manifest, files' = files
  PROVE  /\ \A n : Before(n)' = Before(n) /\ Held(n)' = Held(n) /\ Feeds(n)' = Feeds(n)
                   /\ IdsOf(n)' = IdsOf(n)
         /\ Turn' = Turn
         /\ \A n, m : Slot(n, m)' = Slot(n, m)
         /\ \A c, a, n : Count(c, a, n)' = Count(c, a, n)
         /\ NumbersGiven' = NumbersGiven
<1>1. \A n : Before(n)' = Before(n)
  BY DEF Before
<1>2. Turn' = Turn
  BY <1>1 DEF Turn
<1>3. \A n, m : Slot(n, m)' = Slot(n, m)
  BY <1>1, <1>2 DEF Slot
<1> QED
  BY <1>1, <1>2, <1>3 DEF Held, Feeds, IdsOf, Count, NumbersGiven, IsXa

LEMMA LineFacts ==
  ASSUME StreamInv, NEW n \in 1 .. Len(manifest)
  PROVE  /\ LineOK(manifest[n]) /\ manifest[n].sectors \in Nat \ {0}
         /\ Len(manifest) \in Nat
         /\ Before(n) \in Nat /\ Turn \in Nat \ {0}
         /\ Before(1) = 0 /\ Before(n + 1) = Before(n) + manifest[n].sectors
         /\ Turn = Before(Len(manifest) + 1)
         /\ Len(Held(n)) \in Nat
<1>1. /\ Len(manifest) \in Nat /\ Len(manifest) >= 1
      /\ \A k \in 1 .. Len(manifest) : LineOK(manifest[k]) /\ manifest[k].sectors \in Nat \ {0}
  BY DEF StreamInv, IInv, ManifestOK, LineOK
<1>2. \A k \in 1 .. Len(manifest) :
        /\ Before(1) = 0
        /\ Before(k + 1) = Before(k) + manifest[k].sectors
        /\ Before(k) \in Nat
  <2> TAKE k \in 1 .. Len(manifest)
  <2>1. k \in Nat \ {0} /\ \A m \in 1 .. k - 1 : manifest[m].sectors \in Nat
    BY <1>1
  <2> QED
    BY <2>1, BeforeNext
<1>3. Turn = Before(Len(manifest) + 1) /\ Turn \in Nat \ {0}
  BY <1>1, <1>2, Len(manifest) \in 1 .. Len(manifest) DEF Turn
<1>4. Len(Held(n)) \in Nat
  <2>1. CASE Feeds(n)
    <3>1. manifest[n].stream \in Streams
      BY <1>1, <2>1 DEF LineOK, Feeds
    <3>2. AllMade(files[manifest[n].stream])
      BY <3>1 DEF StreamInv, IInv, FilesOK
    <3> QED
      BY <2>1, <3>2 DEF AllMade, IsSeq, Held, Feeds
  <2>2. CASE ~Feeds(n)
    BY <2>2 DEF Held, Feeds
  <2> QED
    BY <2>1, <2>2
<1> QED
  BY <1>1, <1>2, <1>3, <1>4

\* A line is parsed in full, whatever the lines before it have left over.
LEMMA ParseLineWeaves ==
  ASSUME StreamInv, NumbersGiven, ParseLine
  PROVE  WovenInv'
<1> DEFINE l == manifest[line + 1]
<1>0. /\ pc = "parse" /\ pc' = "parse" /\ line < Len(manifest) /\ line \in Nat /\ Len(manifest) \in Nat
      /\ UNCHANGED <<files, manifest, at, output, image>>
      /\ Len(entries) = line /\ Lined /\ Apart /\ Unread
  BY DEF ParseLine, StreamInv, WovenInv, Parsed, IInv, ManifestOK
<1>1. PICK h \in HandlesOf(l), ids \in ReadIds(l) :
        entries' = Append(entries, [sectors |-> l.sectors, type |-> l.type, handle |-> h,
                                    file |-> ids[1], channel |-> ids[2]])
  BY DEF ParseLine
<1> DEFINE e == [sectors |-> l.sectors, type |-> l.type, handle |-> h,
                 file |-> ids[1], channel |-> ids[2]]
<1>2. line' = line + 1
  <2>1. line + 1 < Len(manifest) => (IsXa(l) => l.ids # <<>>)
    BY <1>0 DEF NumbersGiven
  <2> QED
    BY <1>0, <2>1 DEF ParseLine
<1>3. IsXa(l) => <<ids[1], ids[2]>> = IF l.ids = <<>> THEN <<0, 0>> ELSE l.ids
  <2>1. line + 1 < Len(manifest) => (IsXa(l) => l.ids # <<>>)
    BY <1>0 DEF NumbersGiven
  <2>2. IsXa(l) => ids = IF l.ids = <<>> THEN <<0, 0>> ELSE l.ids
    BY <1>0, <2>1 DEF ReadIds
  <2>3. IsXa(l) => l.ids = <<>> \/ l.ids \in Int \X Int
    BY <1>0 DEF StreamInv, IInv, ManifestOK, LineOK
  <2> QED
    BY <2>2, <2>3
<1>4. l.type # "null" => h = Len(handles) + 1
  BY DEF HandlesOf
<1>5. /\ entries \in Seq(EntryType) /\ handles \in Seq(HandleType)
      /\ \A n \in 1 .. line : entries[n].type # "null" => entries[n].handle \in 1 .. Len(handles)
  BY <1>0 DEF StreamInv, IInv, EntriesOK, HandlesOK
<1>6. IInv'
  BY ParseLineKeeps DEF StreamInv
<1>7. /\ Len(entries') = line + 1
      /\ \A n \in 1 .. line + 1 : entries'[n] = IF n = line + 1 THEN e ELSE entries[n]
  <2>1. \E T : entries \in Seq(T) /\ e \in T
    <3> DEFINE T == EntryType \cup {e}
    <3>1. entries \in Seq(T) /\ e \in T
      BY <1>5
    <3> QED
      BY <3>1
  <2> HIDE DEF e
  <2>2. entries' = Append(entries, e)
    BY <1>1 DEF e
  <2> QED
    BY <1>0, <2>1, <2>2
<1>8. /\ e.sectors = l.sectors /\ e.type = l.type /\ e.handle = h
      /\ e.file = ids[1] /\ e.channel = ids[2]
  OBVIOUS
<1> HIDE DEF e
<1>9. /\ \A k \in 1 .. Len(handles) : handles'[k] = handles[k]
      /\ l.type # "null" => handles'[h].stream = l.stream
      /\ \A k \in 1 .. Len(handles') : handles'[k].pos = 0 /\ ~handles'[k].eof
  <2>1. CASE l.type = "null"
    BY <1>0, <2>1 DEF ParseLine, Unread
  <2>2. CASE l.type # "null"
    <3> DEFINE new == [stream |-> l.stream, pos |-> 0, eof |-> FALSE]
    <3>1. handles' = Append(handles, new)
      BY <2>2 DEF ParseLine
    <3>2. \E T : handles \in Seq(T) /\ new \in T
      <4> DEFINE T == HandleType \cup {new}
      <4>1. handles \in Seq(T) /\ new \in T
        BY <1>5
      <4> QED
        BY <4>1
    <3>3. new.pos = 0 /\ new.eof = FALSE /\ new.stream = l.stream
      OBVIOUS
    <3> HIDE DEF new
    <3>4. /\ Len(handles') = Len(handles) + 1 /\ Len(handles) \in Nat
          /\ \A k \in 1 .. Len(handles) + 1 :
               handles'[k] = IF k = Len(handles) + 1 THEN new ELSE handles[k]
      BY <3>1, <3>2
    <3> QED
      BY <1>0, <1>4, <2>2, <3>3, <3>4 DEF Unread
  <2> QED
    BY <2>1, <2>2
<1>10. Lined'
  <2> SUFFICES ASSUME NEW n \in 1 .. line + 1
               PROVE  /\ entries'[n].sectors = manifest[n].sectors
                      /\ entries'[n].type = manifest[n].type
                      /\ manifest[n].type # "null" => handles'[entries'[n].handle].stream = manifest[n].stream
                      /\ IsXa(manifest[n]) => <<entries'[n].file, entries'[n].channel>> = IdsOf(n)
    BY <1>0, <1>2 DEF Lined, Feeds, Fed, IdsOf, IsXa
  <2>1. CASE n = line + 1
    BY <1>3, <1>7, <1>8, <1>9, <2>1 DEF IdsOf
  <2>2. CASE n # line + 1
    <3>1. n \in 1 .. line /\ entries'[n] = entries[n]
      BY <1>0, <1>7, <2>2
    <3>2. /\ entries[n].sectors = manifest[n].sectors /\ entries[n].type = manifest[n].type
          /\ manifest[n].type # "null" => handles[entries[n].handle].stream = manifest[n].stream
          /\ IsXa(manifest[n]) => <<entries[n].file, entries[n].channel>> = IdsOf(n)
      BY <1>0, <3>1 DEF Lined, Feeds, Fed
    <3>3. manifest[n].type # "null" => entries[n].handle \in 1 .. Len(handles)
      BY <1>5, <3>1, <3>2
    <3> QED
      BY <1>9, <3>1, <3>2, <3>3
  <2> QED
    BY <2>1, <2>2
<1>11. Apart'
  <2> SUFFICES ASSUME NEW n \in 1 .. line + 1, NEW k \in 1 .. line + 1, n # k,
                      manifest[n].type # "null", manifest[k].type # "null"
               PROVE  entries'[n].handle # entries'[k].handle
    BY <1>0, <1>2 DEF Apart, Feeds
  <2>1. ASSUME NEW i \in 1 .. line, manifest[i].type # "null"
        PROVE  entries'[i] = entries[i] /\ entries[i].handle \in 1 .. Len(handles)
    <3>1. entries[i].type = manifest[i].type
      BY <1>0 DEF Lined
    <3> QED
      BY <1>0, <1>5, <1>7, <2>1, <3>1
  <2>2. CASE n = line + 1
    <3>1. k \in 1 .. line /\ entries'[n].handle = Len(handles) + 1
      BY <1>0, <1>4, <1>7, <1>8, <2>2
    <3> QED
      BY <2>1, <3>1
  <2>3. CASE k = line + 1
    <3>1. n \in 1 .. line /\ entries'[k].handle = Len(handles) + 1
      BY <1>0, <1>4, <1>7, <1>8, <2>3
    <3> QED
      BY <2>1, <3>1
  <2>4. CASE n \in 1 .. line /\ k \in 1 .. line
    BY <1>0, <2>1, <2>4 DEF Apart, Feeds
  <2> QED
    BY <1>0, <2>2, <2>3, <2>4
<1>12. Unread'
  BY <1>0, <1>9 DEF Unread
<1> QED
  BY <1>0, <1>2, <1>7, <1>10, <1>11, <1>12 DEF WovenInv, Parsed

\* Before the first chunk nothing is written.
LEMMA EndManifestWeaves ==
  ASSUME StreamInv, NumbersGiven, EndManifest
  PROVE  WovenInv'
<1>0. /\ pc = "parse" /\ pc' = "chunk" /\ line = Len(manifest)
      /\ UNCHANGED <<files, manifest, line, entries, handles, at, output, image>>
      /\ Len(entries) = line /\ Lined /\ Apart /\ Unread /\ at = <<1, 1>>
  BY DEF EndManifest, StreamInv, WovenInv, Parsed, IInv, PlaceOK
<1>1. Parsed'
  BY <1>0 DEF Parsed, Lined, Apart, Fed, Feeds, IsXa, IdsOf
<1>2. ASSUME NEW n \in 1 .. Len(manifest)
      PROVE  InSlots(n, Count(0, at, n)) /\ FedBy(n, Count(0, at, n))
  <2>1. Count(0, at, n) = 0
    BY <1>0, LineFacts DEF Count
  <2>2. Feeds(n) => Fed(n).pos = 0 /\ ~Fed(n).eof
    <3>1. Feeds(n) => entries[n].handle \in 1 .. Len(handles)
      BY <1>0 DEF StreamInv, IInv, EntriesOK, Lined, Feeds
    <3> QED
      BY <1>0, <3>1 DEF Unread, Fed
  <2>3. Len(Held(n)) \in Nat
    BY LineFacts
  <2> QED
    BY <2>1, <2>2, <2>3 DEF InSlots, FedBy, Least
<1>3. Woven(0)
  <2>1. 1 \in 1 .. Len(manifest) /\ Turn \in Nat
    <3>1. 1 \in 1 .. Len(manifest)
      BY DEF StreamInv, IInv, ManifestOK
    <3> QED
      BY <3>1, LineFacts
  <2>2. Before(1) = 0
    BY <2>1, LineFacts
  <2>3. Len(output) = 0
    BY <1>0 DEF Unread
  <2> QED
    BY <1>0, <1>2, <2>1, <2>2, <2>3 DEF Woven
<1>4. Woven(0)'
  BY <1>0, <1>3, SameLines DEF Woven, InSlots, FedBy, Piece, Fed, Held
<1> QED
  BY <1>0, <1>1, <1>4 DEF WovenInv

\* The file is closed only when every line's file has met its end.
LEMMA BeginChunkWeaves ==
  ASSUME StreamInv, NumbersGiven, BeginChunk
  PROVE  WovenInv'
<1>0. /\ pc = "chunk" /\ pc' \in {"trap", "slot", "build"} /\ (pc' = "build" => ~CanRead)
      /\ UNCHANGED <<files, manifest, line, entries, handles, at, output, image>>
      /\ Parsed /\ line = Len(manifest) /\ at = <<1, 1>>
  BY DEF BeginChunk, AfterChunk, StreamInv, WovenInv, Parsed
<1>1. Parsed'
  BY <1>0 DEF Parsed, Lined, Apart, Fed, Feeds, IsXa, IdsOf
<1>2. PICK c \in Nat : Woven(c)
  BY <1>0 DEF StreamInv, WovenInv
<1>3. Woven(c)'
  BY <1>0, <1>2, SameLines DEF Woven, InSlots, FedBy, Piece, Fed, Held
<1>4. ASSUME ~CanRead, NEW n \in 1 .. Len(manifest), Feeds(n)
      PROVE  Fed(n).eof
  <2>1. n \in 1 .. Len(entries) /\ entries[n].handle \in 1 .. Len(handles)
    BY <1>0, <1>4 DEF Parsed, Lined, Feeds, StreamInv, IInv, EntriesOK
  <2> QED
    BY <1>4, <2>1 DEF CanRead, Fed
<1> QED
  BY <1>0, <1>1, <1>3, <1>4 DEF WovenInv, Fed, Feeds

\* One turn of the loops: the slot that is written is that of the next sector
\* of the line the loop is at, and no other line's count changes.
LEMMA NextSlot ==
  ASSUME StreamInv, NumbersGiven, pc = "slot", NEW c \in Nat, Woven(c)
  PROVE  LET i == at[1]
             k == Count(c, at, i) + 1
         IN /\ i \in 1 .. Len(manifest) /\ k \in Nat \ {0}
            /\ Slot(i, k) = Len(output) + 1
            /\ \A n \in 1 .. Len(manifest) : Count(c, at, n) \in Nat
            /\ \E c2 \in Nat :
                 /\ Len(output) + 1 = c2 * Turn + Before(Following[1]) + Following[2] - 1
                 /\ \A n \in 1 .. Len(manifest) :
                      Count(c2, Following, n) = Count(c, at, n) + (IF n = i THEN 1 ELSE 0)
<1> DEFINE i == at[1]
           j == at[2]
           N == Len(manifest)
           s == manifest[i].sectors
<1>0. /\ i \in 1 .. N /\ N \in Nat /\ N = Len(entries)
      /\ entries[i].sectors = s
  BY DEF StreamInv, WovenInv, Parsed, Lined, IInv, PlaceOK, ManifestOK
<1>1. j \in 1 .. s /\ at = <<i, j>>
  BY <1>0 DEF StreamInv, IInv, PlaceOK
<1>2. /\ s \in Nat \ {0} /\ Before(i) \in Nat /\ Turn \in Nat \ {0}
      /\ Before(1) = 0 /\ Before(i + 1) = Before(i) + s /\ Turn = Before(N + 1)
  BY <1>0, LineFacts
<1>3. \A n \in 1 .. N : manifest[n].sectors \in Nat \ {0}
  BY LineFacts
<1> HIDE DEF N, s
<1>4. Count(c, at, i) = c * s + (j - 1)
  BY <1>0 DEF Count, s
<1>5. \A n \in 1 .. N : Count(c, at, n) \in Nat
  <2> TAKE n \in 1 .. N
  <2>1. PICK p \in Nat : p = c * manifest[n].sectors
    BY <1>3
  <2>2. (IF n < i THEN manifest[n].sectors ELSE IF n = i THEN j - 1 ELSE 0) \in Nat
    BY <1>1, <1>2, <1>3
  <2>3. Count(c, at, n) = p + (IF n < i THEN manifest[n].sectors ELSE IF n = i THEN j - 1 ELSE 0)
    BY <2>1 DEF Count
  <2> QED
    BY <2>2, <2>3
<1>6. Len(output) = c * Turn + Before(i) + j - 1
  BY DEF Woven
<1>7. Slot(i, Count(c, at, i) + 1) = Len(output) + 1
  <2>1. (c * s + (j - 1)) \div s = c /\ (c * s + (j - 1)) % s = j - 1
    <3>1. PICK r \in 0 .. s - 1 : r = j - 1
      BY <1>1, <1>2
    <3> QED
      BY <1>2, <3>1, DivModOf
  <2>2. PICK q \in Nat : q = c * s + (j - 1)
    BY <1>1, <1>2
  <2>4. Slot(i, Count(c, at, i) + 1) = (q \div s) * Turn + Before(i) + (q % s) + 1
    <3>0. PICK k : k = Count(c, at, i) + 1
      OBVIOUS
    <3>1. k = Count(c, at, i) + 1 /\ k - 1 = q
      BY <1>4, <2>2, <3>0
    <3>2. Slot(i, k) = ((k - 1) \div s) * Turn + Before(i) + ((k - 1) % s) + 1
      BY DEF Slot, s
    <3>3. Slot(i, k) = (q \div s) * Turn + Before(i) + (q % s) + 1
      BY <3>1, <3>2, Zenon
    <3> QED
      BY <3>1, <3>3, Zenon
  <2>5. Slot(i, Count(c, at, i) + 1) = c * Turn + Before(i) + (j - 1) + 1
    BY <2>1, <2>2, <2>4
  <2>6. PICK p \in Nat, b \in Nat, y \in Nat : p = c * Turn /\ b = Before(i) /\ y = j
    BY <1>1, <1>2
  <2>7. Len(output) = p + b + y - 1 /\ Slot(i, Count(c, at, i) + 1) = p + b + (y - 1) + 1
    BY <1>6, <2>5, <2>6
  <2> QED
    BY <2>7
<1>8. \E c2 \in Nat :
        /\ Len(output) + 1 = c2 * Turn + Before(Following[1]) + Following[2] - 1
        /\ \A n \in 1 .. N :
             Count(c2, Following, n) = Count(c, at, n) + (IF n = i THEN 1 ELSE 0)
  <2>0. c * Turn \in Nat
    BY <1>2
  <2>1. CASE j < s
    <3>1. Following = <<i, j + 1>>
      BY <1>0, <2>1 DEF Following
    <3>2. Len(output) + 1 = c * Turn + Before(i) + (j + 1) - 1
      BY <1>1, <1>2, <1>6, <2>0
    <3>3. ASSUME NEW n \in 1 .. N
          PROVE  Count(c, <<i, j + 1>>, n) = Count(c, at, n) + (IF n = i THEN 1 ELSE 0)
      <4>1. c * manifest[n].sectors \in Nat /\ manifest[n].sectors \in Nat
        BY <1>3
      <4> QED
        BY <1>1, <4>1 DEF Count
    <3> QED
      BY <3>1, <3>2, <3>3
  <2>2. CASE ~(j < s) /\ i < N
    <3>1. Following = <<i + 1, 1>> /\ j = s
      BY <1>0, <1>1, <1>2, <2>2 DEF Following
    <3>2. Len(output) + 1 = c * Turn + Before(i + 1) + 1 - 1
      BY <1>1, <1>2, <1>6, <2>0, <3>1
    <3>3. ASSUME NEW n \in 1 .. N
          PROVE  Count(c, <<i + 1, 1>>, n) = Count(c, at, n) + (IF n = i THEN 1 ELSE 0)
      <4>1. PICK p \in Nat, u \in Nat : p = c * manifest[n].sectors /\ u = manifest[n].sectors
        BY <1>3
      <4>2. i = n => j = u
        BY <3>1, <4>1 DEF s
      <4>3. /\ Count(c, at, n) = p + (IF n < i THEN u ELSE IF n = i THEN j - 1 ELSE 0)
            /\ Count(c, <<i + 1, 1>>, n) = p + (IF n < i + 1 THEN u ELSE IF n = i + 1 THEN 0 ELSE 0)
        BY <4>1 DEF Count
      <4>4. PICK x \in Nat, y \in Nat, z \in Nat : x = i /\ y = j /\ z = n
        BY <1>0, <1>1, <1>2
      <4>5. /\ Count(c, at, n) = p + (IF z < x THEN u ELSE IF z = x THEN y - 1 ELSE 0)
            /\ Count(c, <<i + 1, 1>>, n) = p + (IF z < x + 1 THEN u ELSE 0)
            /\ z = x => y = u
        BY <4>2, <4>3, <4>4
      <4>6. n = i <=> z = x
        BY <4>4
      <4> QED
        BY <4>5, <4>6
    <3> QED
      BY <3>1, <3>2, <3>3
  <2>3. CASE ~(j < s) /\ ~(i < N)
    <3>1. Following = <<1, 1>> /\ j = s /\ i = N
      BY <1>0, <1>1, <1>2, <2>3 DEF Following
    <3>2. (c + 1) * Turn = c * Turn + Turn
      BY <1>2
    <3>3. Turn = Before(i) + s
      BY <1>2, <3>1
    <3>4. Len(output) + 1 = (c + 1) * Turn + Before(1) + 1 - 1
      <4>1. PICK p \in Nat, q \in Nat, t \in Nat : p = c * Turn /\ q = (c + 1) * Turn /\ t = Turn
        BY <1>2
      <4>2. PICK b \in Nat, z \in Nat : b = Before(i) /\ z = s
        BY <1>2
      <4>3. q = p + t /\ t = b + z /\ Len(output) = p + b + z - 1
        BY <1>6, <3>1, <3>2, <3>3, <4>1, <4>2
      <4>4. Len(output) + 1 = q + 0 + 1 - 1
        BY <4>3
      <4> QED
        BY <1>2, <4>1, <4>4
    <3>5. ASSUME NEW n \in 1 .. N
          PROVE  Count(c + 1, <<1, 1>>, n) = Count(c, at, n) + (IF n = i THEN 1 ELSE 0)
      <4>1. c * manifest[n].sectors \in Nat /\ manifest[n].sectors \in Nat
        BY <1>3
      <4>2. i = n => j = manifest[n].sectors
        BY <3>1 DEF s
      <4>3. (c + 1) * manifest[n].sectors = c * manifest[n].sectors + manifest[n].sectors
        BY <4>1
      <4>4. n <= i /\ n >= 1
        BY <3>1
      <4> QED
        <5>1. PICK p \in Nat, u \in Nat : p = c * manifest[n].sectors /\ u = manifest[n].sectors
          BY <4>1
        <5>2. /\ Count(c, at, n) = p + (IF n < i THEN u ELSE IF n = i THEN j - 1 ELSE 0)
              /\ Count(c + 1, <<1, 1>>, n) = p + u + (IF n < 1 THEN u ELSE IF n = 1 THEN 0 ELSE 0)
          BY <4>3, <5>1 DEF Count
        <5>3. i \in Nat /\ n \in Nat /\ j \in Nat
          BY <1>0, <1>1, <1>2
        <5> QED
          BY <4>2, <4>4, <5>1, <5>2, <5>3
    <3>6. c + 1 \in Nat
      OBVIOUS
    <3> QED
      BY <3>1, <3>4, <3>5, <3>6
  <2> QED
    BY <2>1, <2>2, <2>3
<1>9. Count(c, at, i) + 1 \in Nat \ {0}
  BY <1>0, <1>5
<1> QED
  BY <1>0, <1>5, <1>7, <1>8, <1>9 DEF N

\* What a turn writes, and what it makes of the handle of the line it is at.
LEMMA WriteFeeds ==
  ASSUME StreamInv, NumbersGiven, WriteSector,
         NEW I \in 1 .. Len(manifest), I = at[1], NEW k \in Nat \ {0},
         InSlots(I, k - 1), FedBy(I, k - 1)
  PROVE  /\ output' = Append(output, IF k <= Len(Held(I)) THEN Piece(I, k) ELSE Empty)
         /\ Len(handles') = Len(handles)
         /\ \A n \in 1 .. Len(handles) :
              ~(Feeds(I) /\ n = entries[I].handle) => handles'[n] = handles[n]
         /\ Feeds(I) => /\ handles'[entries[I].handle].pos = Least(k, Len(Held(I)))
                        /\ handles'[entries[I].handle].stream = manifest[I].stream
                        /\ handles'[entries[I].handle].eof => k > Len(Held(I))
<1>1. /\ Lined /\ line = Len(manifest) /\ Len(entries) = line /\ Len(Held(I)) \in Nat
  BY LineFacts DEF WriteSector, StreamInv, WovenInv, Parsed
<1>2. PICK e : e = entries[I]
  OBVIOUS
<1>3. e.type = manifest[I].type /\ (Feeds(I) => Fed(I).stream = manifest[I].stream)
  BY <1>1, <1>2 DEF Lined
<1>4. /\ e \in EntryType /\ (Feeds(I) => e.handle \in 1 .. Len(handles))
      /\ handles \in Seq(HandleType)
  BY <1>1, <1>2, <1>3 DEF StreamInv, IInv, EntriesOK, HandlesOK, Feeds
<1>5. CASE ~Feeds(I)
  <2>1. output' = Append(output, Empty) /\ handles' = handles
    BY <1>2, <1>3, <1>5 DEF WriteSector, Feeds
  <2>2. Len(Held(I)) = 0
    BY <1>5 DEF Held, Feeds
  <2>3. ~(k <= Len(Held(I)))
    BY <2>2
  <2> QED
    BY <1>5, <2>1, <2>3
<1>6. CASE Feeds(I)
  <2>1. PICK h \in HandleType : h = handles[e.handle]
    BY <1>4, <1>6
  <2>2. /\ h.stream = manifest[I].stream /\ Held(I) = files[h.stream]
        /\ h.pos = Least(k - 1, Len(Held(I)))
        /\ h.eof => k - 1 > Len(Held(I))
    BY <1>2, <1>3, <1>6, <2>1 DEF FedBy, Fed, Feeds, Held
  <2>3. PICK g \in 1 .. Len(handles) : g = e.handle
    BY <1>4, <1>6
  <2>4. ASSUME NEW new \in HandleType, handles' = [handles EXCEPT ![g] = new]
        PROVE  /\ Len(handles') = Len(handles) /\ handles'[g] = new
               /\ \A n \in 1 .. Len(handles) : n # g => handles'[n] = handles[n]
    BY <1>4, <2>4
  <2>5. CASE h.pos = Len(Held(I))
    <3>1. PICK new : new = [h EXCEPT !.eof = TRUE]
      OBVIOUS
    <3>2. new \in HandleType /\ new.pos = h.pos /\ new.stream = h.stream
      BY <3>1 DEF HandleType
    <3>3. /\ output' = Append(output, Empty)
          /\ handles' = [handles EXCEPT ![g].eof = TRUE]
      BY <1>2, <1>3, <1>6, <2>1, <2>2, <2>3, <2>5 DEF WriteSector, Feeds
    <3>4. handles' = [handles EXCEPT ![g] = new]
      BY <2>1, <2>3, <3>1, <3>3
    <3>5. k > Len(Held(I)) /\ Least(k, Len(Held(I))) = h.pos
      BY <1>1, <2>2, <2>5 DEF Least
    <3>6. ~(k <= Len(Held(I)))
      BY <1>1, <3>5
    <3> QED
      BY <1>2, <1>6, <2>2, <2>3, <2>4, <3>2, <3>3, <3>4, <3>5, <3>6
  <2>6. CASE h.pos # Len(Held(I))
    <3>1. h.pos + 1 = k /\ k <= Len(Held(I)) /\ Least(k, Len(Held(I))) = k /\ ~h.eof
      BY <1>1, <2>2, <2>6 DEF Least
    <3>2. PICK new : new = [h EXCEPT !.pos = h.pos + 1]
      OBVIOUS
    <3>3. new \in HandleType /\ new.pos = k /\ new.stream = h.stream /\ new.eof = h.eof
      BY <3>1, <3>2 DEF HandleType
    <3>4. PICK s : s = files[h.stream][h.pos + 1]
      OBVIOUS
    <3>5. /\ output' = Append(output, IF e.type = "raw" THEN s ELSE Patch(s, e.file, e.channel))
          /\ handles' = [handles EXCEPT ![g].pos = h.pos + 1]
      BY <1>2, <1>3, <1>6, <2>1, <2>2, <2>3, <2>6, <3>4 DEF WriteSector, Feeds
    <3>6. handles' = [handles EXCEPT ![g] = new]
      BY <2>1, <2>3, <3>2, <3>5
    <3>7. (IF e.type = "raw" THEN s ELSE Patch(s, e.file, e.channel)) = Piece(I, k)
      BY <1>2, <1>3, <2>2, <3>1, <3>4 DEF Piece
    <3> QED
      BY <1>2, <1>6, <2>2, <2>3, <2>4, <3>1, <3>3, <3>5, <3>6, <3>7
  <2> QED
    BY <2>5, <2>6
<1> QED
  BY <1>5, <1>6

LEMMA WriteSectorWeaves ==
  ASSUME StreamInv, NumbersGiven, WriteSector
  PROVE  WovenInv'
<1>0. /\ pc = "slot" /\ at' = Following
      /\ pc' = IF Following = <<1, 1>> THEN "chunk" ELSE "slot"
      /\ UNCHANGED <<files, manifest, line, entries, image>>
      /\ Parsed /\ Lined /\ Apart /\ line = Len(manifest) /\ Len(entries) = line
  BY DEF WriteSector, StreamInv, WovenInv, Parsed
<1>1. PICK c \in Nat : Woven(c)
  BY <1>0 DEF StreamInv, WovenInv
<1>a. PICK I \in 1 .. Len(manifest) : I = at[1]
  BY <1>0, <1>1, NextSlot
<1>b. PICK k \in Nat \ {0} : k = Count(c, at, I) + 1
  BY <1>0, <1>1, <1>a, NextSlot
<1>2. /\ Slot(I, k) = Len(output) + 1
      /\ \A n \in 1 .. Len(manifest) : Count(c, at, n) \in Nat
  BY <1>0, <1>1, <1>a, <1>b, NextSlot
<1>3. PICK c2 \in Nat :
        /\ Len(output) + 1 = c2 * Turn + Before(Following[1]) + Following[2] - 1
        /\ \A n \in 1 .. Len(manifest) :
             Count(c2, Following, n) = Count(c, at, n) + (IF n = I THEN 1 ELSE 0)
  BY <1>0, <1>1, <1>a, NextSlot
<1>4. InSlots(I, k - 1) /\ FedBy(I, k - 1)
  <2>1. Count(c, at, I) = k - 1
    BY <1>2, <1>b
  <2> QED
    BY <1>1, <2>1 DEF Woven
<1>5. PICK x : x = IF k <= Len(Held(I)) THEN Piece(I, k) ELSE Empty
  OBVIOUS
<1>6. /\ output' = Append(output, x)
      /\ \A n \in 1 .. Len(handles) :
           ~(Feeds(I) /\ n = entries[I].handle) => handles'[n] = handles[n]
      /\ Feeds(I) => /\ handles'[entries[I].handle].pos = Least(k, Len(Held(I)))
                     /\ handles'[entries[I].handle].stream = manifest[I].stream
                     /\ handles'[entries[I].handle].eof => k > Len(Held(I))
  BY <1>4, <1>5, <1>a, WriteFeeds
<1>7. /\ Len(output) \in Nat /\ Len(output') = Len(output) + 1
      /\ \A m \in 1 .. Len(output) : output'[m] = output[m]
      /\ output'[Len(output) + 1] = x
  <2>1. PICK S : output \in Seq(S)
    BY DEF StreamInv, IInv, ImageOK, AllMade, IsSeq
  <2>2. PICK T : T = S \cup {x}
    OBVIOUS
  <2>3. output \in Seq(T) /\ x \in T
    BY <2>1, <2>2
  <2> QED
    BY <1>6, <2>3
<1>8. \A n : Fed(n)' = handles'[entries[n].handle]
  BY <1>0 DEF Fed
<1>9. ASSUME NEW n \in 1 .. Len(manifest), n # I, Feeds(n)
      PROVE  Fed(n)' = Fed(n)
  <2>1. entries[n].handle \in 1 .. Len(handles)
    BY <1>0, <1>9 DEF Lined, Feeds, StreamInv, IInv, EntriesOK
  <2>2. Feeds(I) => entries[n].handle # entries[I].handle
    BY <1>0, <1>9 DEF Apart
  <2> QED
    BY <1>6, <1>8, <2>1, <2>2 DEF Fed
<1>10. Feeds(I) => Fed(I).stream = manifest[I].stream
  BY <1>0 DEF Lined
<1>11. ASSUME NEW n \in 1 .. Len(manifest),
              NEW l \in Nat, l = Count(c, at, n) + (IF n = I THEN 1 ELSE 0)
       PROVE  /\ \A m \in 1 .. l :
                   /\ Slot(n, m) \in 1 .. Len(output')
                   /\ output'[Slot(n, m)] = IF m <= Len(Held(n)) THEN Piece(n, m) ELSE Empty
              /\ Feeds(n) => /\ Fed(n)'.pos = Least(l, Len(Held(n)))
                             /\ Fed(n)'.eof => l > Len(Held(n))
                             /\ Fed(n)'.stream = Fed(n).stream
  <2>1. InSlots(n, Count(c, at, n)) /\ FedBy(n, Count(c, at, n)) /\ Count(c, at, n) \in Nat
    BY <1>1, <1>2 DEF Woven
  <2>2. \A m \in 1 .. Count(c, at, n) :
          /\ Slot(n, m) \in 1 .. Len(output')
          /\ output'[Slot(n, m)] = IF m <= Len(Held(n)) THEN Piece(n, m) ELSE Empty
    BY <1>7, <2>1 DEF InSlots
  <2>3. CASE n = I
    <3>0. l = k
      BY <1>11, <1>b, <2>3
    <3>1. \A m \in 1 .. k : m = k \/ m \in 1 .. Count(c, at, n)
      BY <2>1, <2>3, <1>b
    <3>2. /\ Slot(n, k) \in 1 .. Len(output')
          /\ output'[Slot(n, k)] = IF k <= Len(Held(n)) THEN Piece(n, k) ELSE Empty
      BY <1>2, <1>5, <1>7, <2>3
    <3>3. Feeds(n) => /\ Fed(n)'.pos = Least(k, Len(Held(n)))
                      /\ Fed(n)'.eof => k > Len(Held(n))
                      /\ Fed(n)'.stream = Fed(n).stream
      BY <1>6, <1>8, <1>10, <2>3
    <3> QED
      BY <2>2, <3>0, <3>1, <3>2, <3>3
  <2>4. CASE n # I
    <3>1. l = Count(c, at, n)
      BY <1>11, <2>1, <2>4
    <3> QED
      BY <1>9, <2>1, <2>2, <2>4, <3>1 DEF FedBy
  <2> QED
    BY <2>3, <2>4
<1>12. \A n, m : Piece(n, m)' = Piece(n, m)
  BY <1>0 DEF Piece
<1>13. Woven(c2)'
  <2>1. /\ \A n : Before(n)' = Before(n) /\ Held(n)' = Held(n) /\ Feeds(n)' = Feeds(n)
        /\ Turn' = Turn
        /\ \A n, m : Slot(n, m)' = Slot(n, m)
    BY <1>0, SameLines DEF Held, Feeds
  <2>2. Len(output') = c2 * Turn' + Before(at[1])' + at'[2] - 1
    BY <1>0, <1>3, <1>7, SameLines
  <2>3. ASSUME NEW n \in 1 .. Len(manifest)
        PROVE  InSlots(n, Count(c2, at, n))' /\ FedBy(n, Count(c2, at, n))'
    <3>1. Count(c2, at, n)' = Count(c2, Following, n)
      BY <1>0 DEF Count
    <3>2. PICK l \in Nat : l = Count(c, at, n) + (IF n = I THEN 1 ELSE 0)
      BY <1>2
    <3>3. Count(c2, at, n)' = l
      BY <1>3, <3>1, <3>2
    <3>4. InSlots(n, l)' /\ FedBy(n, l)'
      BY <1>11, <1>12, <2>1, <3>2 DEF InSlots, FedBy
    <3> QED
      BY <3>3, <3>4 DEF InSlots, FedBy
  <2> QED
    BY <1>0, <2>2, <2>3 DEF Woven
<1>14. Parsed'
  <2>1. Lined'
    <3>1. \A n \in 1 .. Len(manifest) : Feeds(n) => Fed(n)'.stream = Fed(n).stream
      <4> TAKE n \in 1 .. Len(manifest)
      <4>1. PICK l \in Nat : l = Count(c, at, n) + (IF n = I THEN 1 ELSE 0)
        BY <1>2
      <4> QED
        BY <1>11, <4>1
    <3> QED
      BY <1>0, <3>1 DEF Lined, Feeds, IsXa, IdsOf
  <2>2. Apart'
    BY <1>0 DEF Apart, Feeds
  <2> QED
    BY <1>0, <2>1, <2>2 DEF Parsed
<1> QED
  BY <1>0, <1>13, <1>14 DEF WovenInv

LEMMA BuildWeaves ==
  ASSUME StreamInv, NumbersGiven, Build
  PROVE  WovenInv'
<1>0. /\ pc = "build" /\ pc' = "done"
      /\ image' = [i \in 1 .. Len(output) |-> EncodeSector(output[i])]
      /\ UNCHANGED <<files, manifest, line, entries, handles, at, output>>
      /\ Parsed /\ line = Len(manifest) /\ at = <<1, 1>>
      /\ \A n \in 1 .. Len(manifest) : Feeds(n) => Fed(n).eof
  BY DEF Build, StreamInv, WovenInv, Parsed
<1>1. Parsed'
  BY <1>0 DEF Parsed, Lined, Apart, Fed, Feeds, IsXa, IdsOf
<1>2. PICK c \in Nat : Woven(c)
  BY <1>0 DEF StreamInv, WovenInv
<1>3. Woven(c)'
  BY <1>0, <1>2, SameLines DEF Woven, InSlots, FedBy, Piece, Fed, Held
<1> QED
  BY <1>0, <1>1, <1>3 DEF WovenInv, Fed, Feeds

LEMMA StreamStep == StreamInv /\ [Next]_vars => StreamInv'
<1> SUFFICES ASSUME StreamInv, [Next]_vars PROVE StreamInv'
  OBVIOUS
<1>1. IInv'
  BY InvariantStep DEF StreamInv
<1>2. UNCHANGED <<files, manifest>>
  BY DEF Next, ParseLine, EndManifest, BeginChunk, WriteSector, Build, vars
<1>3. NumbersGiven' = NumbersGiven
  BY <1>2, SameLines
<1>4. ASSUME NumbersGiven PROVE WovenInv'
  <2>1. CASE UNCHANGED vars
    <3>1. WovenInv
      BY <1>4 DEF StreamInv
    <3>2. /\ Parsed' = Parsed
          /\ \A c : Woven(c)' = Woven(c)
          /\ \A n : Fed(n)' = Fed(n) /\ Feeds(n)' = Feeds(n)
      BY <2>1, SameLines
      DEF vars, Parsed, Lined, Apart, Unread, Woven, InSlots, FedBy, Piece, Fed, Feeds, Held,
          IsXa, IdsOf
    <3> QED
      BY <2>1, <3>1, <3>2 DEF vars, WovenInv
  <2> QED
    BY <1>4, <2>1, ParseLineWeaves, EndManifestWeaves, BeginChunkWeaves, WriteSectorWeaves,
       BuildWeaves DEF Next
<1>5. /\ \A st \in Streams : FileOK(st, files'[st])
      /\ \A n \in 1 .. Len(manifest') : manifest'[n] \in Lines
      /\ Len(manifest') >= 1
  BY <1>2 DEF StreamInv
<1> QED
  BY <1>1, <1>2, <1>3, <1>4, <1>5 DEF StreamInv, FileOK, Lines

\* The numbers a manifest gives fit the fields they are written to: eight bits
\* for the file and five for the channel.
NumbersFit == \A ids \in LineIds : ids # <<>> => ids[1] < 256 /\ ids[2] < 32

\* What a piece of a line looks like on the disc.
LEMMA PieceOnDisc ==
  ASSUME StreamInv, NumbersFit, Parsed, pc # "parse",
         NEW n \in 1 .. Len(manifest), NEW m \in 1 .. Len(Held(n))
  PROVE  LET s == EncodeSector(Piece(n, m)) IN
         /\ SubSeq(s.data, 1, 2) = <<manifest[n].stream, m>>
         /\ IsXa(manifest[n]) => <<s.sub.file, s.sub.channel>> = FilterOf(n)
<1>1. PICK l \in Lines : l = manifest[n]
  BY DEF StreamInv
<1>2. LineOK(l) /\ Feeds(n)
  BY <1>1, LineFacts DEF Held, Feeds
<1>3. PICK st \in Streams : st = l.stream
  BY <1>1, <1>2 DEF LineOK, Feeds
<1>4. Held(n) = files[st]
  BY <1>1, <1>2, <1>3 DEF Held, Feeds
<1>5. PICK s : s = files[st][m]
  OBVIOUS
<1>6. Made(s) /\ Tagged(s, st, m) /\ (Kind[st] # "str" => OfXa(s))
  BY <1>4, <1>5 DEF StreamInv, IInv, FilesOK, AllMade, FileOK
<1>7. PICK e \in EntryType : e = entries[n]
  BY DEF Parsed, StreamInv, IInv, EntriesOK
<1>8. /\ e.file \in Int /\ e.channel \in Int
      /\ IsXa(l) => <<e.file, e.channel>> = IdsOf(n)
  BY <1>1, <1>7 DEF Parsed, Lined, EntryType
<1>9. PICK p : p = Piece(n, m)
  OBVIOUS
<1>10. p = IF l.type = "raw" THEN s ELSE Patch(s, e.file, e.channel)
  BY <1>1, <1>3, <1>5, <1>7, <1>9 DEF Piece
<1>11. Made(p) /\ p.data = s.data
  BY <1>6, <1>8, <1>10, PatchMade, PatchKeeps
<1>12. EncodeSector(p).data = s.data
  BY <1>11, EncodeKeeps
<1>13. ASSUME IsXa(l)
       PROVE  <<EncodeSector(p).sub.file, EncodeSector(p).sub.channel>> = FilterOf(n)
  <2>1. Kind[st] # "str" /\ l.ids \in LineIds
    <3>1. PICK t \in Streams : l \in LinesOf(t)
      BY <1>13 DEF Lines, IsXa
    <3>2. l.type \in Types(t) \ {"raw"} /\ l.stream = t /\ l.ids \in LineIds
      BY <1>13, <3>1 DEF LinesOf, IsXa
    <3> QED
      BY <1>3, <3>2 DEF Types
  <2>2. l.type # "raw"
    BY <1>13 DEF IsXa
  <2>3. p = Patch(s, e.file, e.channel)
    BY <1>10, <2>2
  <2>4. /\ p.mode = 2 /\ Form2(p)
        /\ p.copy.file = IF e.file >= 0 THEN e.file % 256 ELSE EncoderIds[1]
        /\ p.copy.channel = IF e.channel >= 0 THEN e.channel % 32 ELSE EncoderIds[2]
    BY <1>6, <1>8, <2>1, <2>3, PatchKeeps DEF OfXa, Form2
  <2>5. /\ EncodeSector(p).sub.file = p.copy.file
        /\ EncodeSector(p).sub.channel = p.copy.channel
    BY <1>11, <2>4, EncodeKeeps
  <2>6. e.file < 256 /\ e.channel < 32 /\ e.file = IdsOf(n)[1] /\ e.channel = IdsOf(n)[2]
    <3>1. e.file = IdsOf(n)[1] /\ e.channel = IdsOf(n)[2]
      BY <1>8, <1>13
    <3>2. IdsOf(n)[1] < 256 /\ IdsOf(n)[2] < 32
      BY <1>1, <2>1 DEF NumbersFit, IdsOf
    <3> QED
      BY <3>1, <3>2
  <2>7. /\ e.file >= 0 => e.file % 256 = e.file
        /\ e.channel >= 0 => e.channel % 32 = e.channel
    BY <1>8, <2>6
  <2>8. FilterOf(n) = <<IF e.file < 0 THEN EncoderIds[1] ELSE e.file,
                        IF e.channel < 0 THEN EncoderIds[2] ELSE e.channel>>
    BY <2>6 DEF FilterOf, Number, IdsOf
  <2> QED
    BY <1>8, <2>4, <2>5, <2>7, <2>8
<1> QED
  BY <1>1, <1>3, <1>6, <1>9, <1>12, <1>13 DEF Tagged

\* Every stream of the manifest is whole on the disc: at its own rate, in
\* order, under the numbers of its line and followed by empty sectors only.
\* For files of any length and for entries of any size, as many as entries[]
\* has places: the least that the disc needs is that the numbers fit their
\* fields.
THEOREM StreamsWholeHolds ==
  ASSUME NumbersFit
  PROVE  Spec => []StreamsWhole
<1>1. StreamInv => StreamsWhole
  <2> SUFFICES ASSUME StreamInv, pc = "done", NumbersGiven
               PROVE  /\ Len(image) % Turn = 0
                      /\ \A n \in 1 .. Len(manifest) :
                           LET rate == (Len(image) \div Turn) * manifest[n].sectors
                               size == Len(Held(n))
                           IN /\ size <= rate
                              /\ \A m \in 1 .. size :
                                   LET s == image[Slot(n, m)] IN
                                   /\ SubSeq(s.data, 1, 2) = <<manifest[n].stream, m>>
                                   /\ IsXa(manifest[n]) =>
                                        <<s.sub.file, s.sub.channel>> = FilterOf(n)
                              /\ \A m \in size + 1 .. rate : image[Slot(n, m)] = Empty
    BY DEF StreamsWhole
  <2>1. /\ Parsed /\ at = <<1, 1>>
        /\ \A n \in 1 .. Len(manifest) : Feeds(n) => Fed(n).eof
        /\ image = [i \in 1 .. Len(output) |-> EncodeSector(output[i])]
    BY DEF StreamInv, WovenInv
  <2>2. PICK c \in Nat : Woven(c)
    BY DEF StreamInv, WovenInv
  <2>3. PICK t \in Nat \ {0} : t = Turn /\ Before(1) = 0
    <3>1. 1 \in 1 .. Len(manifest)
      BY DEF StreamInv, IInv, ManifestOK
    <3> QED
      BY <3>1, LineFacts
  <2>4. Len(output) = c * t
    <3>1. PICK p \in Nat : p = c * t
      BY <2>3
    <3>2. Len(output) = p + 0 + 1 - 1
      BY <2>1, <2>2, <2>3, <3>1 DEF Woven
    <3> QED
      BY <3>1, <3>2
  <2>5. Len(image) = c * t
    <3>1. Len(output) \in Nat
      BY DEF StreamInv, IInv, ImageOK, AllMade, IsSeq
    <3> QED
      BY <2>1, <2>4, <3>1, FunctionIsSeq
  <2>6. (c * t) \div t = c /\ (c * t) % t = 0
    <3>1. (c * t + 0) \div t = c /\ (c * t + 0) % t = 0
      BY DivModOf
    <3>2. c * t + 0 = c * t
      OBVIOUS
    <3> QED
      BY <3>1, <3>2
  <2>7. ASSUME NEW n \in 1 .. Len(manifest)
        PROVE  LET rate == c * manifest[n].sectors
                   size == Len(Held(n))
               IN /\ size <= rate
                  /\ \A m \in 1 .. size :
                       LET s == image[Slot(n, m)] IN
                       /\ SubSeq(s.data, 1, 2) = <<manifest[n].stream, m>>
                       /\ IsXa(manifest[n]) => <<s.sub.file, s.sub.channel>> = FilterOf(n)
                  /\ \A m \in size + 1 .. rate : image[Slot(n, m)] = Empty
    <3>1. PICK rate \in Nat, size \in Nat : rate = c * manifest[n].sectors /\ size = Len(Held(n))
      <4>1. PICK u \in Nat : u = manifest[n].sectors
        BY LineFacts
      <4>2. c * u \in Nat
        OBVIOUS
      <4> QED
        BY <4>1, <4>2, LineFacts
    <3>2. Count(c, at, n) = rate
      BY <2>1, <3>1 DEF Count
    <3>3. InSlots(n, rate) /\ FedBy(n, rate)
      BY <2>2, <3>2 DEF Woven
    <3>4. size <= rate
      <4>1. CASE Feeds(n)
        BY <2>1, <3>1, <3>3, <4>1 DEF FedBy
      <4>2. CASE ~Feeds(n)
        BY <3>1, <4>2 DEF Feeds, Held
      <4> QED
        BY <4>1, <4>2
    <3>5. ASSUME NEW m \in 1 .. rate
          PROVE  image[Slot(n, m)] = EncodeSector(IF m <= size THEN Piece(n, m) ELSE Empty)
      BY <2>1, <3>1, <3>3 DEF InSlots
    <3>6. ASSUME NEW m \in 1 .. size
          PROVE  image[Slot(n, m)] = EncodeSector(Piece(n, m))
      BY <3>4, <3>5
    <3>7. ASSUME NEW m \in size + 1 .. rate
          PROVE  image[Slot(n, m)] = Empty
      <4>1. m \in 1 .. rate /\ ~(m <= size)
        OBVIOUS
      <4> QED
        BY <3>5, <4>1, EncodeEmpty
    <3> QED
      BY <2>1, <3>1, <3>4, <3>6, <3>7, PieceOnDisc
  <2> QED
    BY <2>3, <2>5, <2>6, <2>7
<1> QED
  BY <1>1, StreamInit, StreamStep, PTL DEF Spec
=============================================================================
