------------------------------ MODULE Handshake ------------------------------
(***************************************************************************)
(* The RTMP handshake of the server, pkg/rtmp/handshake: the goroutine that *)
(* WithClient starts, and the search for the digest in the client's C1.     *)
(* WithClient itself, which waits for that goroutine or for a timeout, is   *)
(* part of Conn.  HMAC is abstracted: a block is valid or it is not, and    *)
(* only the place of a digest in its block is computed.                     *)
(***************************************************************************)
EXTENDS Integers

CONSTANTS
  Sums,   \* sums of the four bytes that give the offset of a digest
  None

ASSUME HandshakeAssumption == Sums \subseteq Nat /\ None \notin Sums

(* The bases of the two schemes: the digest comes second or first in C1.   *)
Bases == {772, 8}

(* Each scheme has 764 bytes of the 1536 of C1: 4 of offset, 728 to place  *)
(* the digest in, and its own 32.                                          *)
BlockSize == 764
DigestSize == 32

VARIABLES
  hs,   \* where the goroutine is in serverHandshke
  ch,   \* the channel its result goes through: None while it is empty
  c1,   \* the C1 it has read, None before and after
  s1    \* the place of the digest in the S1 it answers with, None without

hsVars == <<hs, ch, c1, s1>>

(* What the goroutine looks at in C0 and C1: the version, whether the      *)
(* client asks for a digest, its offsets, and the base of the scheme whose *)
(* digest is valid.                                                        *)
C1s == [version : {3, 6}, complex : BOOLEAN, sum : [Bases -> Sums],
        valid : Bases \cup {None}]

HandshakeTypeOK ==
  /\ hs \in {"c0c1", "parse", "s0s1s2", "c2", "ok", "failed", "done"}
  /\ ch \in {"ok", "failed", None}
  /\ c1 \in C1s \cup {None}
  /\ s1 \in Nat \cup {None}
  /\ hs = "parse" => c1 \in C1s

HandshakeInit == hs = "c0c1" /\ ch = None /\ c1 = None /\ s1 = None

-----------------------------------------------------------------------------
(* A wrong version, for DigestInside: the offset is reduced to the size of *)
(* the block, not to that of the field the digest is placed in.            *)
CalcDigestPosUnreduced(sum, base) == (sum % BlockSize) + base + 4

-----------------------------------------------------------------------------
CalcDigestPos(sum, base) == (sum % 728) + base + 4

(* complexHandshakeParseC1: the scheme with base 772 is tried first.  Both  *)
(* are valid only in a C1 that holds two digests, which no client sends.    *)
HasDigest(c) == c.valid # None

(* ReadFull has C0 and C1.                                                 *)
HsReadC1(c) ==
  /\ hs = "c0c1"
  /\ hs' = "parse"
  /\ c1' = c
  /\ UNCHANGED <<ch, s1>>

(* The version and, if the client asks for one, its digest are checked;    *)
(* S0, S1 and S2 are made: simple ones, or S1 with a digest whose place    *)
(* follows from random bytes.                                              *)
HsParse ==
  /\ hs = "parse"
  /\ \/ /\ c1.version # 3 \/ (c1.complex /\ ~ HasDigest(c1))
        /\ hs' = "failed"
        /\ UNCHANGED s1
     \/ /\ c1.version = 3 /\ ~ c1.complex
        /\ hs' = "s0s1s2"
        /\ UNCHANGED s1
     \/ /\ c1.version = 3 /\ c1.complex /\ HasDigest(c1)
        /\ hs' = "s0s1s2"
        /\ \E sum \in Sums : s1' = CalcDigestPos(sum, 8)
  /\ c1' = None
  /\ UNCHANGED ch

(* S0, S1 and S2 are written.                                              *)
HsWrite ==
  /\ hs = "s0s1s2"
  /\ hs' = "c2"
  /\ UNCHANGED <<ch, c1, s1>>

(* ReadFull has C2, of which nothing is checked.                           *)
HsReadC2 ==
  /\ hs = "c2"
  /\ hs' = "ok"
  /\ UNCHANGED <<ch, c1, s1>>

(* A read or the write fails.                                              *)
HsFail ==
  /\ hs \in {"c0c1", "s0s1s2", "c2"}
  /\ hs' = "failed"
  /\ UNCHANGED <<ch, c1, s1>>

(* ch <- the result: the buffer of one takes it whether or not WithClient   *)
(* is still waiting.                                                        *)
HsReport ==
  /\ hs \in {"ok", "failed"}
  /\ ch' = hs
  /\ hs' = "done"
  /\ s1' = None
  /\ UNCHANGED c1

-----------------------------------------------------------------------------
(* Wherever a digest is looked for or put, its 32 bytes lie inside the     *)
(* block of their scheme and behind the four bytes their place is computed *)
(* from: no slice leaves C1 or S1, and the digest of S1 does not overwrite *)
(* the offset by which the client finds it.                                *)
Inside(pos, base) == base + 4 <= pos /\ pos + DigestSize <= base + BlockSize

DigestInside ==
  /\ hs = "parse" =>
       \A base \in Bases : Inside(CalcDigestPos(c1.sum[base], base), base)
  /\ s1 # None => Inside(s1, 8)
=============================================================================
