------------------------------- MODULE XaSector -------------------------------
(***************************************************************************)
(* A raw CD sector on its way from the encoder (libpsxav and psxavenc)     *)
(* through the interleaver to the image builder.  Each of them writes the  *)
(* fields it knows: the subheader, which is stored twice, the payload, and *)
(* the checksum (EDC) over both.                                           *)
(*                                                                         *)
(* The EDC is taken for what it is computed from, so that a stale one      *)
(* differs from a fresh one.  Time, sync pattern and ECC are left out.     *)
(***************************************************************************)
EXTENDS Integers, Sequences

Subheader(file, channel, flags) == [file |-> file, channel |-> channel, flags |-> flags]

Audio == {"audio", "realtime", "form2"}     \* 0x24|0x40
Video == {"data", "realtime"}               \* 0x08|0x40

NoEdc  == <<"none">>        \* the four bytes are 0
Forced == <<"forced">>      \* the last of them is 0xFF
EdcOf(s) == <<"edc", s.sub, s.copy, s.data>>

Form2(s) == "form2" \in s.sub.flags
Checked(s) == [s EXCEPT !.edc = EdcOf(s)]

\* A sector of zeros; `mode` is byte 0x0F.
Empty == [mode |-> 0, sub |-> Subheader(0, 0, {}), copy |-> Subheader(0, 0, {}),
          data |-> <<>>, edc |-> NoEdc]

-----------------------------------------------------------------------------
(* The encoder. *)

\* init_sector writes one subheader and copies it over the second one.
InitSector(file, channel, flags) ==
  LET sub == Subheader(file, channel % 32, flags) IN
  [Empty EXCEPT !.mode = 2, !.sub = sub, !.copy = sub]

\* A sector of audio and one of video.
AudioSector(file, channel, data) ==
  Checked([InitSector(file, channel, Audio) EXCEPT !.data = data])
VideoSector(file, channel, data) ==
  Checked([InitSector(file, channel, Video) EXCEPT !.data = data])

\* psx_audio_xa_encode_finalize marks the end of a file: in the first
\* subheader, and in the payload's first byte.
Finalize(s) ==
  [s EXCEPT !.sub.flags = @ \cup {"eof"}, !.data = Append(@, "marked")]

-----------------------------------------------------------------------------
(* The interleaver. *)

\* File and channel are entered into both subheaders, unless they are
\* negative, and the checksum is spoilt, "make pscd-new generate EDC".
Patch(s, file, channel) ==
  LET patched(sub) ==
        [sub EXCEPT !.file    = IF file >= 0 THEN file % 256 ELSE @,
                    !.channel = IF channel >= 0 THEN channel % 32 ELSE @]
  IN [s EXCEPT !.sub = patched(@), !.copy = patched(@), !.edc = Forced]

-----------------------------------------------------------------------------
(* The image builder, for a raw sector that is empty or of mode 2. *)

\* Form 2: the second subheader is copied over the first, and a checksum is
\* renewed, but none is added (mutant: it is renewed before the copying).
Form2SectorEarly(s) ==
  LET sub == [s.copy EXCEPT !.flags = @ \cup {"form2"}]
      c == IF s.edc = NoEdc THEN s ELSE Checked(s)
  IN [c EXCEPT !.sub = sub, !.copy = sub]
Form2Sector(s) ==
  LET sub == [s.copy EXCEPT !.flags = @ \cup {"form2"}]
      c == [s EXCEPT !.sub = sub, !.copy = sub]
  IN IF s.edc = NoEdc THEN c ELSE Checked(c)

\* Form 1: both subheaders are written anew, of file 0 and channel 0; a raw
\* sector comes with a submode of 0.
Form1Sector(s) ==
  Checked([s EXCEPT !.sub = Subheader(0, 0, {}), !.copy = Subheader(0, 0, {})])

EncodeSector(s) ==
  CASE s.mode = 0 -> s
    [] s.mode = 2 /\ Form2(s) -> Form2Sector(s)
    [] s.mode = 2 /\ ~Form2(s) -> Form1Sector(s)
=============================================================================
