----------------------------- MODULE MCAsicJobs -----------------------------
(* AsicJobs for TLC, and HeaderCodes on a few inputs. *)
EXTENDS AsicJobs, HeaderCodes

(* All bytes are different, but for those of the words. *)
SampleJob ==
  [version        |-> << 32, 0, 0, 4 >>,
   prevBlockHash  |-> [i \in 1 .. 32 |-> i],
   merkleRoot     |-> [i \in 1 .. 32 |-> 100 + i],
   blockTimestamp |-> << 201, 202, 203, 204 >>,
   networkTarget  |-> << 205, 206, 207, 208 >>]

SampleNonces == {0, 1, 127} \X {0, 255} \X {0, 128} \X {7, 255}

ASSUME HeadersAgree ==
  \A nonce \in SampleNonces :
    /\ ChipHashesHeaderOf(SampleJob, AnswerNonce(nonce))
    /\ CpuHashesHeaderOf(SampleJob, BigEndian(nonce))
    /\ NonceIsAsAnswered(SampleJob, nonce, SampleJob.version)

(* The lengths one to three, around the values where they wrap *)
ASSUME ExtraNoncesRoll ==
  \A length \in 1 .. 3, n \in 1 .. 9 :
    \A value \in 0 .. 9 \cup (Space(length) - 9) .. Space(length) - 1 :
      RollsModulo(value, n, length)

ASSUME JobIDsAreTold ==
  \A jobID \in JobIDs16 :
    /\ \A core \in 0 .. 15 : JobIDIsTold(jobID, core)
    /\ NextJobIDsDiffer(jobID)

(* Versions and answers with the bits at the ends of the mask *)
ASSUME VersionsAreAsHashed ==
  \A base \in SUBSET {0, 2, 12, 13, 20, 28, 29} :
    \A answer \in SUBSET {0, 1, 7, 15} : VersionIsAsHashed(base, answer)
=============================================================================
