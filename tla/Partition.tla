----------------------------- MODULE Partition -----------------------------
(***************************************************************************)
(* The scenario of scripts/test-network-partition.sh on RaftNode: the      *)
(* leader of term 1 is cut off from the others, which may elect leaders    *)
(* and write, and then the network is healed.                              *)
(*                                                                         *)
(* While First is cut off its messages are not delivered and its calls     *)
(* fail; everybody else's go through.  The script heals the network after  *)
(* 4 s, more than the 2 s of an RPC: what was called has settled.  Once    *)
(* healed no call fails, and no timer expires before the heartbeat that    *)
(* resets it (150 ms against 500 ms), so there are no more elections: what *)
(* is left of RaftNode is the interval, the handlers and the answers.      *)
(***************************************************************************)
EXTENDS MCRaft

VARIABLE healed
partitionVars == <<vars, healed>>

PartitionInit == LedInit /\ healed = FALSE

Delivers(i, j) == healed \/ First \notin {i, j}

Handler(m) == \/ handleRequestVote(m) \/ handleAppendEntries(m)
              \/ handleInstallSnapshot(m)

Arrives(i, j) ==
  /\ Delivers(i, j)
  /\ UNCHANGED healed
  /\ \/ \E m \in requests : m.src = i /\ m.dst = j /\ Handler(m)
     \/ \E r \in replies : /\ r.src = i /\ r.dst = j
                           /\ requestVoteReply(r) \/ replicateOnceReply(r)

\* The heartbeat interval has no end: the bound on the rounds is lifted.  While
\* First is cut off the writes and elections send enough, and it is left out.
heartbeatInterval(i) ==
  /\ healed
  /\ UNCHANGED healed
  /\ \/ sendHeartbeats(i)
     \/ /\ state[i] = "Leader" /\ budget.round = 0
        /\ budget' = [budget EXCEPT !.round = MaxRounds]
        /\ UNCHANGED <<elecVars, store, leaderVars, reads, catchUp, requests, replies,
                       history>>

\* What still happens while First is cut off.
CutOff ==
  /\ ~healed
  /\ \/ /\ requests = {} /\ replies = {}
        /\ \E i \in Peers(First) : state[i] = "Leader"
        /\ healed' = TRUE /\ UNCHANGED vars
     \/ /\ UNCHANGED healed
        /\ \/ \E i \in Node : runElection(i) \/ \E v \in Stroke : handleClientWrite(i, v)
           \/ \E i \in Node : \E p \in Peers(i) :
                /\ First \in {i, p}
                /\ requestVoteFails(i, p) \/ replicateOnceFails(i, p)

PartitionNext == \/ CutOff
                 \/ \E i \in Node : heartbeatInterval(i)
                 \/ \E i \in Node : \E j \in Peers(i) : Arrives(i, j)

\* The network heals, the intervals fire and what is sent arrives.
PartitionSpec ==
  /\ PartitionInit /\ [][PartitionNext]_partitionVars
  /\ WF_partitionVars(CutOff /\ healed')
  /\ \A i \in Node : WF_partitionVars(heartbeatInterval(i))
  /\ \A i \in Node : \A j \in Peers(i) : WF_partitionVars(Arrives(i, j))

\* scripts/test-network-partition.sh: "Verify isolated node is reachable and
\* catches up to at least leader commit index".  Under a leader that stays, in a
\* network that delivers everything, every replica gets the entries of the leader.
CatchesUp ==
  LET Leads(i) == state[i] = "Leader" /\ \A j \in Node : currentTerm[j] = currentTerm[i]
  IN  <>[](healed /\ \E i \in Node : Leads(i))
        => <>(healed /\ \E i \in Node : Leads(i)
                                         /\ \A j \in Node : IsPrefix(AllStrokes(i), AllStrokes(j)))
=============================================================================
