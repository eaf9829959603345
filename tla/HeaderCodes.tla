---------------------------- MODULE HeaderCodes ----------------------------
(***************************************************************************)
(* How a job of the pool becomes the bytes that are hashed, and what the   *)
(* chip's answer becomes.                                                  *)
(*                                                                         *)
(* The same header is put together three times: AsicSendJob sends the      *)
(* fields to the chip, which hashes them, SHA256dValidator rebuilds what   *)
(* the chip has hashed, and the CPU miner builds its own.  Each turns      *)
(* bytes and words around in its own way.                                  *)
(*                                                                         *)
(* A hexadecimal string is the sequence of its bytes, a uint32 a number    *)
(* and, where the code works on its bits, the set of the bits that are 1.  *)
(***************************************************************************)
EXTENDS Integers, Sequences

Byte == 0 .. 255

Word == [1 .. 4 -> Byte]

Hash == [1 .. 32 -> Byte]

(* What the header takes from a StratumJob. *)
HeaderFields ==
  [version : Word, prevBlockHash : Hash, merkleRoot : Hash,
   blockTimestamp : Word, networkTarget : Word]

-----------------------------------------------------------------------------
(* Bytes and words *)

ReverseBytes(b) == [i \in 1 .. Len(b) |-> b[Len(b) + 1 - i]]

(* The bytes of each word are reversed; the words stay where they are. *)
ReverseWord32(hash) ==
  [i \in 1 .. 32 |-> hash[4 * ((i - 1) \div 4) + 4 - ((i - 1) % 4)]]

(* byte(s >> (8 * k)) of uint32(s) *)
ByteOf(s, k) ==
  CASE k = 0 -> s % 256
    [] k = 1 -> (s \div 256) % 256
    [] k = 2 -> ((s \div 256) \div 256) % 256
    [] k = 3 -> (((s \div 256) \div 256) \div 256) % 256
    [] OTHER -> 0

PadLeft(s, length) == [i \in 1 .. length |-> ByteOf(s, length - i)]

(* binary.BigEndian.Uint32, and ParseUint of a longer string whose leading *)
(* bytes are zero *)
BigEndian(b) ==
  LET at(k) == IF k < Len(b) THEN b[Len(b) - k] ELSE 0
  IN  at(0) + 256 * (at(1) + 256 * (at(2) + 256 * at(3)))

(* ExtraNonce2 goes on by n: ParseUint, a sum in uint64, and PadLeft of    *)
(* its lower half.                                                         *)
RollExtraNonce2(extraNonce2, n) ==
  PadLeft(BigEndian(extraNonce2) + n, Len(extraNonce2))

-----------------------------------------------------------------------------
(* The header *)

(* The job as the chip wants it *)
BmConstructJob(job) ==
  [networkTarget  |-> ReverseBytes(job.networkTarget),
   blockTimestamp |-> ReverseBytes(job.blockTimestamp),
   merkleRoot     |-> ReverseBytes(ReverseWord32(job.merkleRoot)),
   prevBlockHash  |-> ReverseBytes(job.prevBlockHash),
   version        |-> ReverseBytes(job.version)]

(* The part of AsicSendJob's packet that the chip hashes *)
Payload(job) ==
  LET asicJob == BmConstructJob(job)
  IN  asicJob.networkTarget \o asicJob.blockTimestamp \o asicJob.merkleRoot
        \o asicJob.prevBlockHash \o asicJob.version

(* The header of SHA256dValidator *)
ValidatorHeader(job, nonce, version) ==
  ReverseBytes(version) \o ReverseWord32(job.prevBlockHash) \o job.merkleRoot
    \o ReverseBytes(job.blockTimestamp) \o ReverseBytes(job.networkTarget)
    \o ReverseBytes(nonce)

(* The header of a thread of the CPU miner *)
CpuHeader(job, nonceInt) ==
  (ReverseBytes(job.version) \o ReverseWord32(job.prevBlockHash)
    \o job.merkleRoot \o ReverseBytes(job.blockTimestamp)
    \o ReverseBytes(job.networkTarget))
    \o ReverseBytes(PadLeft(nonceInt, 4))

-----------------------------------------------------------------------------
(* The answer *)

(* The JobID of the next job *)
RingJobID(lastJobID) == (lastJobID + 24) % 128

(* The JobID in an answer is the upper half of a byte: & 0xf0, >> 1.       *)
AnswerJobID(byte) == 8 * (byte \div 16)

(* What the chip makes of a JobID, with the number of a core below it *)
AnswerByte(jobID, core) == 16 * (jobID \div 8) + core

(* bmDecodeWork: the nonce *)
AnswerNonce(nonceBytes) == ReverseBytes(PadLeft(BigEndian(nonceBytes), 4))

(* DEFAULT_VERSION_MASK, 0x1FFFE000 *)
VersionMask == 13 .. 28

(* bmDecodeWork: the version that the chip has hashed, from that of the    *)
(* job and the 16 bits of the answer *)
FullVersion(baseVersion, versionValue) ==
  LET versionBits == {b + 13 : b \in versionValue}
  IN  (baseVersion \ VersionMask) \cup (versionBits \cap VersionMask)

Xor(a, b) == (a \ b) \cup (b \ a)

(* The version bits of a share *)
ShareVersion(baseVersion, versionValue) ==
  Xor(baseVersion, FullVersion(baseVersion, versionValue))

-----------------------------------------------------------------------------
(* Properties *)

(* The words of a header but the nonce, the last one first *)
WordsReversed(header) ==
  [i \in 1 .. 76 |->
     header[4 * (18 - ((i - 1) \div 4)) + ((i - 1) % 4) + 1]]

(* What AsicSendJob sends (aonminer.go:492-501, 275-279) is what           *)
(* SHA256dValidator hashes (general.go:203-214), word by word from the     *)
(* end, whatever the nonce.                                                *)
ChipHashesHeaderOf(job, nonce) ==
  Payload(job) = WordsReversed(ValidatorHeader(job, nonce, job.version))

(* The header of the CPU miner (cpu.go:57-63, 100) is the one that the     *)
(* validator builds for the nonce that the share names (cpu.go:113).       *)
CpuHashesHeaderOf(job, nonceInt) ==
  CpuHeader(job, nonceInt)
    = ValidatorHeader(job, PadLeft(nonceInt, 4), job.version)

(* The header ends with the nonce as the chip has answered it, although it *)
(* is reversed, padded and reversed again (aonminer.go:526, general.go:213).*)
NonceIsAsAnswered(job, nonceBytes, version) ==
  LET header == ValidatorHeader(job, AnswerNonce(nonceBytes), version)
  IN  [i \in 1 .. 4 |-> header[76 + i]] = nonceBytes

(* ExtraNonce2 of length bytes counts modulo 256^length, or 2^32 for four  *)
(* and more: JobDispatch's NonceSpace (miner.go:191-197).                  *)
Space(length) ==
  CASE length = 1 -> 256
    [] length = 2 -> 256 * 256
    [] length = 3 -> 256 * (256 * 256)
    [] OTHER      -> 256 * (256 * (256 * 256))

RollsModulo(value, n, length) ==
  BigEndian(RollExtraNonce2(PadLeft(value, length), n))
    = (value + n) % Space(length)

(* The JobIDs that come up *)
JobIDs16 == {8 * k : k \in 0 .. 15}

(* An answer names the job it is about, whatever core has found it         *)
(* (aonminer.go:403).                                                      *)
JobIDIsTold(jobID, core) == AnswerJobID(AnswerByte(jobID, core)) = jobID

(* The JobID of the k-th job after it *)
JobIDAfter(jobID, k) == (jobID + 24 * k) % 128

(* The next fifteen jobs have other JobIDs, and the sixteenth the same     *)
(* again (aonminer.go:485): more than the 14 that stay pending.            *)
NextJobIDsDiffer(jobID) ==
  /\ JobIDAfter(jobID, 0) = jobID
  /\ \A k \in 0 .. 15 :
       /\ JobIDAfter(jobID, k + 1) = RingJobID(JobIDAfter(jobID, k))
       /\ JobIDAfter(jobID, k + 1) \in JobIDs16
       /\ JobIDAfter(jobID, k + 1) = jobID <=> k + 1 = 16

(* The pool gets the version that was hashed from its own and the share's, *)
(* which changes no bit outside the mask; and every bit that the chip has  *)
(* rolled is in it (aonminer.go:418-420, 520-524).                         *)
VersionIsAsHashed(baseVersion, versionValue) ==
  LET share == ShareVersion(baseVersion, versionValue)
      full  == FullVersion(baseVersion, versionValue)
  IN  /\ Xor(baseVersion, share) = full
      /\ share \subseteq VersionMask
      /\ \A b \in 0 .. 15 : b \in versionValue <=> b + 13 \in full
=============================================================================
