------------------------------ MODULE MCEpoch ------------------------------
(* Small instances of Keyring and EpochGroup for TLC.  Every history is about *)
(* one question: the keyring of one member while its log forks and finalizes, *)
(* rotations that race, keys that are asked for, or members that follow.      *)
EXTENDS EpochGroup

VARIABLE focus      \* the question of this history

MCDepthParams == {[k |-> 1, t |-> 0]}

MCInit ==
    /\ focus \in {"keyring", "race", "restart", "join", "revoked", "follow"}
    /\ CASE focus = "keyring" ->
              /\ KeyringInit
              /\ body = [h \in {} |-> Nil] /\ mls = <<>> /\ group = [n \in Member |-> NoGroup]
              /\ key = [n \in Member |-> [h \in {} |-> 1]] /\ current = [n \in Member |-> Nil]
              /\ pending = [n \in Member |-> 0] /\ packages = [n \in Member |-> 0]
              /\ inbound = [n \in Member |-> {}] /\ mail = {} /\ asked = 0 /\ losses = 0
              /\ saved = [n \in Member |-> [session |-> NoGroup, ref |-> Nil]]
              /\ given = {}
         [] focus = "race" \/ focus = "restart" -> EpochInit(Member)
         [] focus = "join" \/ focus = "revoked" -> EpochInit(Member \ {3})
         [] focus = "follow" -> EpochInit({})

\* The first hash that is free, where the order of hashes does not matter.
FreeHash == {h \in Hash \ Signed : \A g \in Hash \ Signed : h <= g}

KeyringOne == \/ /\ InsertGenesis(1) \/ InsertOwn(1) \/ Reconcile(1)
                 /\ Signed' \subseteq 1 .. 4 /\ UNCHANGED keyVars
              \/ Record(1) \/ AcceptDelivered(1) \/ ReconcileKeys(1)

\* Two members rotate, and revoke a third that follows what it can.  Which of two
\* branches wins a tie is settled by the hashes that member 2 draws.
RaceHash(n) == IF n = 1 THEN FreeHash \ {5} ELSE (1 .. 4) \ Signed

RaceNext ==
    \/ \E n \in {1, 2} : \E h \in RaceHash(n) : RotateEpoch(n, h) \/ RevokeEpochMember(n, 3, h)
    \/ \E h \in RaceHash(1) : ChangeMembership(1, 3, "Remove", h)
    \/ \E n \in Member : ApplyPendingRotations(n) \/ \E m \in {1, 2} : SyncFrom(n, m)
    \/ \E n \in {1, 2} : ReconcileEpochKeys(n)

\* Two members rotate, and one of them restarts from what it saved.
RestartNext ==
    \/ \E n \in {1, 2} : \E h \in RaceHash(n) : RotateEpoch(n, h)
    \/ \E n \in {1, 2} : ApplyPendingRotations(n) \/ ReconcileEpochKeys(n) \/ SyncFrom(n, 3 - n)
    \/ SaveEpochGroup(1) \/ Restart(1)

\* A third member asks two others.
JoinNext ==
    \/ asked < 2 /\ \E r \in {1, 2} : RequestEpochKey(3, r)
    \/ \E r \in Member : \E m \in inbound[r] :
          \/ r = 1 /\ DeclineEpochKey(r, m)
          \/ \E h \in FreeHash \ {5} : AnswerEpochKey(r, m, h)
    \/ \E h \in FreeHash \ {5} : ChangeMembership(1, 3, "Remove", h) \/ RevokeEpochMember(1, 3, h)
    \/ \E m \in mail : Posting(m)
    \/ \E n \in Member : ApplyPendingRotations(n) \/ \E m \in {1, 2} : SyncFrom(n, m)
    \/ ReconcileEpochKeys(3)

\* A third member asks one that is revoked meanwhile.
RevokedNext ==
    \/ asked < 1 /\ RequestEpochKey(3, 2)
    \/ \E m \in inbound[2] : AnswerFails(2, m) \/ \E h \in FreeHash : AnswerEpochKey(2, m, h)
    \/ \E h \in FreeHash : ChangeMembership(1, 2, "Remove", h) \/ RevokeEpochMember(1, 2, h)
    \/ \E m \in mail : Posting(m)
    \/ \E n \in Member : ApplyPendingRotations(n) \/ \E m \in {1, 2} : SyncFrom(n, m)

\* The founder alone rotates and answers; the others ask while they have no
\* group and no request under way, and follow.
Unanswered(n) == \/ \E m \in mail : m.to = n \/ (m.type = "Request" /\ m.from = n)
                 \/ \E m \in inbound[Founder] : m.from = n

FollowProgress ==
    \/ CreateEpochGroup(Founder)
    \/ \E m \in inbound[Founder], h \in FreeHash : AnswerEpochKey(Founder, m, h)
    \/ \E n \in Member \ {Founder} :
          \/ ApplyPendingRotations(n) \/ SyncFrom(n, Founder)
          \/ mls # <<>> /\ group[n].at = 0 /\ ~Unanswered(n) /\ RequestEpochKey(n, Founder)
    \/ \E m \in mail : ScreenEpochRequest(m) \/ HearWelcome(m) \/ HearRefusal(m)

FollowNext ==
    \/ FollowProgress
    \/ \E m \in mail : LoseMail(m)
    \/ Cardinality(Signed) < 3 /\ \E h \in FreeHash : RotateEpoch(Founder, h)

MCNext ==
    /\ focus' = focus
    /\ \/ focus = "keyring" /\ KeyringOne /\ UNCHANGED <<body, groupVars, askVars, restVars>>
       \/ focus = "race" /\ RaceNext
       \/ focus = "restart" /\ RestartNext
       \/ focus = "join" /\ JoinNext
       \/ focus = "revoked" /\ RevokedNext
       \/ focus = "follow" /\ FollowNext

\* Nothing is left for a member or the founder to do.
FollowIdle ==
    /\ mls # <<>> /\ mail = {} /\ inbound[Founder] = {}
    /\ \A n \in Member \ {Founder} :
          /\ group[n].at # 0 \/ asked = MaxRequests
          /\ held[n] = held[Founder]
          /\ group[n].at # 0 => AfterPending(n).group = group[n]

\* The nodes keep running: WF of FollowProgress, with ENABLED written out.
MCSpec == /\ MCInit /\ [][MCNext]_<<epochVars, focus>>
          /\ []<>(focus # "follow" \/ FollowIdle) \/ []<><<FollowProgress>>_epochVars

\* Members that ask for a key, and ask again when the request or the answer is
\* lost, all end up in step with the founder, whose rotations they follow
\* (node.rs, request_epoch_key, apply_pending_rotations).
KeyReachesMembers == <>[](focus = "follow" => InStep)

\* KeysAgree of EpochGroup, in the histories that have an MLS group.
MCKeysAgree == focus # "keyring" => KeysAgree
=============================================================================
