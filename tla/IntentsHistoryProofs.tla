----------------------- MODULE IntentsHistoryProofs -----------------------
(***************************************************************************)
(* WrittenIsKept, SettledByOwn and PendingIsFollowed, for any swaps, any   *)
(* sharing of addresses and any rows opened.  They are inductive with what *)
(* the queue carries: one write at a time works on the list as it is, and  *)
(* a status on its way to a row is the one 1Click gave of that swap.       *)
(***************************************************************************)
EXTENDS IntentsHistory, TLAPS

\* The list a write works on is the list as it is.
OneWriter ==
    /\ \A w \in writing : w.read = rows
    /\ \A v, w \in writing : v = w

JobOK(job) ==
    IF job.by = "exec"
    THEN job.status = "pending"
    ELSE /\ job.status \in Terminal
         /\ job.swap \notin Detailed => job.status = final[job.swap]

JobsOK ==
    /\ \A i \in DOMAIN queue : JobOK(queue[i])
    /\ \A w \in writing : JobOK(w.job)

\* Between its two steps the resume pass holds every row left to it.
LoadedOK ==
    resume = "loaded" =>
        \A s \in Swaps : rows[s] = "pending" => s \in loaded \/ polls[s]["modal"] # "no"

\* Only rows that are opened have a details poller.
DetailsAreOpened == \A s \in Swaps : polls[s]["details"] # "no" => s \in Detailed

IInv ==
    /\ TypeOK /\ OneWriter /\ JobsOK /\ LoadedOK /\ DetailsAreOpened
    /\ WrittenIsKept /\ SettledByOwn /\ PendingIsFollowed

PollStates == {"no", "asking", "writing", "over"}

\* What a step owes the pollers.
Followed ==
    /\ \A r \in Swaps, j \in {"modal", "resume"} : polls[r][j] # "no" => polls'[r][j] # "no"
    /\ DetailsAreOpened'

\* A job of the queue is a job, and what is queued, begun or left stays well formed.
LEMMA QueueValues ==
    ASSUME TypeOK
    PROVE  /\ \A i \in DOMAIN queue : queue[i] \in Jobs
           /\ \A job \in Jobs :
                /\ Append(queue, job) \in Seq(Jobs)
                /\ \A i \in DOMAIN Append(queue, job) :
                     Append(queue, job)[i] = job \/ (i \in DOMAIN queue /\ Append(queue, job)[i] = queue[i])
           /\ queue # <<>> =>
                /\ Head(queue) \in Jobs /\ Head(queue) = queue[1] /\ 1 \in DOMAIN queue
                /\ Tail(queue) \in Seq(Jobs)
                /\ \A i \in DOMAIN Tail(queue) : i + 1 \in DOMAIN queue /\ Tail(queue)[i] = queue[i + 1]
<1>1. queue \in Seq(Jobs) BY DEF TypeOK
<1>2. \A i \in DOMAIN queue : queue[i] \in Jobs BY <1>1
<1>3. ASSUME NEW job \in Jobs
      PROVE  /\ Append(queue, job) \in Seq(Jobs)
             /\ \A i \in DOMAIN Append(queue, job) :
                  Append(queue, job)[i] = job \/ (i \in DOMAIN queue /\ Append(queue, job)[i] = queue[i])
  BY <1>1
<1>4. ASSUME queue # <<>>
      PROVE  /\ Head(queue) \in Jobs /\ Head(queue) = queue[1] /\ 1 \in DOMAIN queue
             /\ Tail(queue) \in Seq(Jobs)
             /\ \A i \in DOMAIN Tail(queue) : i + 1 \in DOMAIN queue /\ Tail(queue)[i] = queue[i + 1]
  BY <1>1, <1>4
<1>5. QED BY <1>2, <1>3, <1>4

LEMMA MovesValues ==
    ASSUME TypeOK, NEW s \in Swaps, NEW k \in Pollers, NEW state \in PollStates, Moves(s, k, state)
    PROVE  /\ polls' \in [Swaps -> [Pollers -> PollStates]]
           /\ polls'[s][k] = state
           /\ \A j \in Pollers \ {k} : polls'[s][j] = polls[s][j]
           /\ \A r \in Swaps \ {s} : polls'[r] = polls[r]
<1>1. polls \in [Swaps -> [Pollers -> PollStates]] BY DEF TypeOK, PollStates
<1>2. polls[s] \in [Pollers -> PollStates] BY <1>1
<1>3. QED BY <1>1, <1>2 DEF Moves

\* A poller that moves on has not gone away, unless it is the details view's.
LEMMA MovesFollow ==
    ASSUME TypeOK, DetailsAreOpened, NEW s \in Swaps, NEW k \in Pollers,
           NEW state \in PollStates, k = "details" \/ state # "no",
           k = "details" /\ state # "no" => s \in Detailed, Moves(s, k, state)
    PROVE  Followed
<1>1. \A j \in {"modal", "resume", "details"} : j \in Pollers BY DEF Pollers
<1>2. \A r \in Swaps, j \in {"modal", "resume"} : polls[r][j] # "no" => polls'[r][j] # "no"
  BY <1>1, MovesValues
<1>3. DetailsAreOpened' BY <1>1, MovesValues DEF DetailsAreOpened
<1>4. QED BY <1>2, <1>3 DEF Followed

\* One more write waits.
LEMMA EnqueueValues ==
    ASSUME IInv, NEW s \in Swaps, NEW by \in Pollers \cup {"exec"},
           NEW status \in Terminal \cup {"pending"}, Enqueue(s, by, status),
           JobOK([swap |-> s, by |-> by, status |-> status])
    PROVE  queue' \in Seq(Jobs) /\ \A i \in DOMAIN queue' : JobOK(queue'[i])
<1> DEFINE job == [swap |-> s, by |-> by, status |-> status]
<1>1. job \in Jobs BY DEF Jobs
<1>2. TypeOK BY DEF IInv
<1>3. queue' = Append(queue, job) BY DEF Enqueue
<1>4. /\ Append(queue, job) \in Seq(Jobs)
      /\ \A i \in DOMAIN Append(queue, job) :
           Append(queue, job)[i] = job \/ (i \in DOMAIN queue /\ Append(queue, job)[i] = queue[i])
  BY <1>1, <1>2, QueueValues
<1>5. \A i \in DOMAIN queue : JobOK(queue[i]) BY DEF IInv, JobsOK
<1>6. ASSUME NEW i \in DOMAIN queue' PROVE JobOK(queue'[i])
  <2>1. queue'[i] = job \/ (i \in DOMAIN queue /\ queue'[i] = queue[i]) BY <1>3, <1>4
  <2>2. CASE queue'[i] = job BY <2>2
  <2>3. CASE i \in DOMAIN queue /\ queue'[i] = queue[i] BY <1>5, <2>3
  <2>4. QED BY <2>1, <2>2, <2>3
<1>7. QED BY <1>3, <1>4, <1>6

\* Steps that touch the waiting writes and the pollers only.
LEMMA PollSteps ==
    ASSUME IInv, polls' \in [Swaps -> [Pollers -> PollStates]],
           Followed, queue' \in Seq(Jobs), \A i \in DOMAIN queue' : JobOK(queue'[i]),
           UNCHANGED <<exec, writing, rows, resume, loaded, final>>
    PROVE  IInv'
<1>1. TypeOK' BY DEF IInv, TypeOK, PollStates
<1>2. OneWriter' BY DEF IInv, OneWriter
<1>3. JobsOK' BY DEF IInv, JobsOK, JobOK
<1>4. LoadedOK' BY DEF IInv, LoadedOK, Followed
<1>5. WrittenIsKept' /\ SettledByOwn' BY DEF IInv, WrittenIsKept, SettledByOwn
<1>6. PendingIsFollowed' /\ DetailsAreOpened' BY DEF IInv, PendingIsFollowed, Followed
<1>7. QED BY <1>1, <1>2, <1>3, <1>4, <1>5, <1>6 DEF IInv

\* A poller moves on; nothing is queued.
LEMMA MovesOnly ==
    ASSUME IInv, NEW s \in Swaps, NEW k \in Pollers, NEW state \in PollStates,
           k = "details" \/ state # "no", k = "details" /\ state # "no" => s \in Detailed,
           Moves(s, k, state),
           UNCHANGED <<exec, queue, writing, rows, resume, loaded, final>>
    PROVE  IInv'
<1>1. queue' \in Seq(Jobs) /\ \A i \in DOMAIN queue' : JobOK(queue'[i])
  BY DEF IInv, TypeOK, JobsOK
<1>2. TypeOK /\ DetailsAreOpened BY DEF IInv
<1>3. polls' \in [Swaps -> [Pollers -> PollStates]] BY <1>2, MovesValues
<1>4. QED BY <1>1, <1>2, <1>3, MovesFollow, PollSteps

\* A poller takes an answer and queues the status.
LEMMA AnswerSteps ==
    ASSUME IInv, NEW s \in Swaps, NEW k \in Pollers, NEW status \in Terminal,
           s \notin Detailed => status = final[s], k = "details" => s \in Detailed,
           Enqueue(s, k, status), Moves(s, k, "writing"),
           UNCHANGED <<exec, writing, rows, resume, loaded, final>>
    PROVE  IInv'
<1>1. JobOK([swap |-> s, by |-> k, status |-> status]) BY DEF JobOK, Pollers
<1>2. queue' \in Seq(Jobs) /\ \A i \in DOMAIN queue' : JobOK(queue'[i])
  BY <1>1, EnqueueValues
<1>3. TypeOK /\ DetailsAreOpened /\ "writing" \in PollStates BY DEF IInv, PollStates
<1>4. polls' \in [Swaps -> [Pollers -> PollStates]] BY <1>3, MovesValues
<1>5. Followed BY <1>3, MovesFollow
<1>6. QED BY <1>2, <1>4, <1>5, PollSteps

-----------------------------------------------------------------------------
(* Every action.                                                           *)

LEMMA DepositedInductive == ASSUME IInv, NEW s \in Swaps, Deposited(s) PROVE IInv'
<1>1. queue' \in Seq(Jobs) /\ \A i \in DOMAIN queue' : JobOK(queue'[i])
  <2>1. JobOK([swap |-> s, by |-> "exec", status |-> "pending"]) BY DEF JobOK
  <2>2. QED BY <2>1, EnqueueValues DEF Deposited
<1>2. exec' \in [Swaps -> [pc : {"idle", "row", "follow"}, written : BOOLEAN]]
      /\ \A r \in Swaps : exec'[r].written = exec[r].written
  BY DEF Deposited, IInv, TypeOK
<1>3. TypeOK' BY <1>1, <1>2 DEF Deposited, IInv, TypeOK
<1>4. OneWriter' BY DEF Deposited, IInv, OneWriter
<1>5. JobsOK' BY <1>1 DEF Deposited, IInv, JobsOK, JobOK
<1>6. LoadedOK' BY DEF Deposited, IInv, LoadedOK
<1>7. WrittenIsKept' BY <1>2 DEF Deposited, IInv, WrittenIsKept
<1>8. SettledByOwn' BY DEF Deposited, IInv, SettledByOwn
<1>9. PendingIsFollowed' /\ DetailsAreOpened'
  BY DEF Deposited, IInv, PendingIsFollowed, DetailsAreOpened
<1>10. QED BY <1>3, <1>4, <1>5, <1>6, <1>7, <1>8, <1>9 DEF IInv

LEMMA BeginInductive == ASSUME IInv, Begin PROVE IInv'
<1>1. /\ Head(queue) \in Jobs /\ Head(queue) = queue[1] /\ 1 \in DOMAIN queue
      /\ Tail(queue) \in Seq(Jobs)
      /\ \A i \in DOMAIN Tail(queue) : i + 1 \in DOMAIN queue /\ Tail(queue)[i] = queue[i + 1]
  BY QueueValues DEF Begin, IInv
<1>2. \A i \in DOMAIN queue : JobOK(queue[i]) BY DEF IInv, JobsOK
<1>3. TypeOK' BY <1>1 DEF Begin, IInv, TypeOK
<1>4. OneWriter' BY DEF Begin, OneWriter
<1>5. JobsOK'
  <2>1. \A i \in DOMAIN queue' : JobOK(queue'[i])
    BY <1>1, <1>2 DEF Begin
  <2>2. \A w \in writing' : JobOK(w.job)
    BY <1>1, <1>2 DEF Begin
  <2>3. UNCHANGED final BY DEF Begin
  <2>4. QED BY <2>1, <2>2, <2>3 DEF JobsOK, JobOK
<1>6. LoadedOK' BY DEF Begin, IInv, LoadedOK
<1>7. WrittenIsKept' /\ SettledByOwn' BY DEF Begin, IInv, WrittenIsKept, SettledByOwn
<1>8. PendingIsFollowed' /\ DetailsAreOpened'
  BY DEF Begin, IInv, PendingIsFollowed, DetailsAreOpened
<1>9. QED BY <1>3, <1>4, <1>5, <1>6, <1>7, <1>8 DEF IInv

\* When a write is over its writer moves on: a submission to its poller.
LEMMA ResolvedValues ==
    ASSUME TypeOK, DetailsAreOpened, NEW job \in Jobs, NEW ok \in BOOLEAN, Resolved(job, ok)
    PROVE  /\ exec' \in [Swaps -> [pc : {"idle", "row", "follow"}, written : BOOLEAN]]
           /\ polls' \in [Swaps -> [Pollers -> PollStates]]
           /\ Followed
           /\ job.by = "exec" => polls'[job.swap]["modal"] = "asking" /\ exec'[job.swap].written = ok
           /\ \A r \in Swaps : job.by # "exec" \/ r # job.swap => exec'[r].written = exec[r].written
<1> DEFINE s == job.swap
<1>1. s \in Swaps /\ job.by \in Pollers \cup {"exec"} BY DEF Jobs
<1>2. exec \in [Swaps -> [pc : {"idle", "row", "follow"}, written : BOOLEAN]] BY DEF TypeOK
<1>3. polls \in [Swaps -> [Pollers -> PollStates]] BY DEF TypeOK, PollStates
<1>4. {"modal", "resume", "details"} = Pollers /\ "exec" \notin Pollers BY DEF Pollers
<1>5. {"no", "asking", "writing", "over"} = PollStates BY DEF PollStates
<1>6. CASE job.by = "exec"
  <2>1. /\ exec' = [exec EXCEPT ![s] = [pc |-> "follow", written |-> ok]]
        /\ Moves(s, "modal", "asking")
    BY <1>6 DEF Resolved
  <2>2. /\ polls' \in [Swaps -> [Pollers -> PollStates]]
        /\ polls'[s]["modal"] = "asking"
        /\ Followed
    BY <1>1, <1>4, <1>5, <2>1, MovesValues, MovesFollow
  <2>3. exec' \in [Swaps -> [pc : {"idle", "row", "follow"}, written : BOOLEAN]]
        /\ exec'[s].written = ok /\ \A r \in Swaps \ {s} : exec'[r] = exec[r]
    BY <1>1, <1>2, <2>1
  <2>4. QED BY <1>6, <2>2, <2>3
<1>7. CASE job.by \in {"modal", "resume"}
  <2>1. Moves(s, job.by, "over") /\ exec' = exec BY <1>7 DEF Resolved
  <2>2. /\ polls' \in [Swaps -> [Pollers -> PollStates]]
        /\ Followed
    BY <1>1, <1>4, <1>5, <1>7, <2>1, MovesValues, MovesFollow
  <2>3. QED BY <1>2, <1>7, <2>1, <2>2
<1>8. CASE job.by = "details"
  <2> DEFINE next == IF polls[s]["details"] = "writing"
                     THEN IF ok THEN "no" ELSE "asking"
                     ELSE polls[s]["details"]
  <2>1. next \in PollStates /\ (next # "no" => s \in Detailed)
    BY <1>1, <1>3, <1>4, <1>5 DEF DetailsAreOpened
  <2>2. Moves(s, "details", next) /\ exec' = exec BY <1>3, <1>8 DEF Resolved, Moves
  <2> HIDE DEF next
  <2>3. /\ polls' \in [Swaps -> [Pollers -> PollStates]]
        /\ Followed
    BY <1>1, <1>4, <2>1, <2>2, MovesValues, MovesFollow
  <2>4. QED BY <1>2, <1>8, <2>2, <2>3
<1>9. QED BY <1>1, <1>4, <1>6, <1>7, <1>8

LEMMA CommitInductive == ASSUME IInv, Commit PROVE IInv'
<1>1. PICK w \in writing :
        writing' = writing \ {w} /\ rows' = Write(w.job, w.read) /\ Resolved(w.job, TRUE)
  BY DEF Commit
<1> DEFINE job == w.job
<1> DEFINE s == job.swap
<1>2. UNCHANGED <<queue, resume, loaded, final>> BY DEF Commit
<1>3. TypeOK /\ DetailsAreOpened BY DEF IInv
<1>4. /\ job \in Jobs /\ s \in Swaps /\ job.by \in Pollers \cup {"exec"}
      /\ job.status \in Terminal \cup {"pending"}
  BY <1>3 DEF TypeOK, Jobs
<1>5. w.read = rows /\ writing' = {} BY <1>1 DEF IInv, OneWriter
<1>6. JobOK(job) BY DEF IInv, JobsOK
<1>7. rows \in [Swaps -> Statuses] BY <1>3 DEF TypeOK
<1>8. /\ exec' \in [Swaps -> [pc : {"idle", "row", "follow"}, written : BOOLEAN]]
      /\ polls' \in [Swaps -> [Pollers -> PollStates]]
      /\ Followed
      /\ job.by = "exec" => polls'[s]["modal"] = "asking" /\ exec'[s].written = TRUE
      /\ \A r \in Swaps : job.by # "exec" \/ r # s => exec'[r].written = exec[r].written
  BY <1>1, <1>3, <1>4, ResolvedValues
<1>9. /\ rows' \in [Swaps -> Statuses]
      /\ \A r \in Swaps \ {s} : rows'[r] = rows[r]
      /\ rows'[s] = job.status \/ (job.by # "exec" /\ rows'[s] = rows[s])
      /\ rows[s] # "none" => rows'[s] # "none"
  BY <1>1, <1>4, <1>5, <1>7 DEF Write, Statuses, Terminal
<1>10. job.status = "pending" => job.by = "exec" BY <1>6 DEF JobOK, Terminal
<1>11. \A r \in Swaps : rows'[r] = "pending" =>
          rows[r] = "pending" \/ (r = s /\ polls'[s]["modal"] = "asking")
  BY <1>8, <1>9, <1>10
<1>12. TypeOK' BY <1>2, <1>3, <1>5, <1>8, <1>9 DEF TypeOK, PollStates
<1>13. OneWriter' BY <1>5 DEF OneWriter
<1>14. JobsOK'
  <2>1. \A i \in DOMAIN queue : JobOK(queue[i]) BY DEF IInv, JobsOK
  <2>2. QED BY <1>2, <1>5, <2>1 DEF JobsOK, JobOK
<1>15. LoadedOK' BY <1>2, <1>8, <1>11 DEF IInv, LoadedOK, Followed
<1>16. WrittenIsKept'
  <2>1. ASSUME NEW r \in Swaps, exec'[r].written PROVE rows'[r] # "none"
    <3>1. CASE exec[r].written BY <1>9, <3>1 DEF IInv, WrittenIsKept
    <3>2. CASE ~exec[r].written
      <4>1. job.by = "exec" /\ r = s BY <1>8, <2>1, <3>2
      <4>2. rows'[r] = "pending" BY <1>6, <1>9, <4>1 DEF JobOK
      <4>3. QED BY <4>2
    <3>3. QED BY <3>1, <3>2
  <2>2. QED BY <2>1 DEF WrittenIsKept
<1>17. SettledByOwn'
  <2>1. ASSUME NEW r \in Swaps \ Detailed, rows'[r] \in Terminal PROVE rows'[r] = final[r]
    <3>1. CASE r # s \/ rows'[s] = rows[s] BY <1>9, <2>1, <3>1 DEF IInv, SettledByOwn
    <3>2. CASE r = s /\ rows'[s] = job.status
      BY <1>6, <2>1, <3>2 DEF JobOK, Terminal
    <3>3. QED BY <1>9, <3>1, <3>2
  <2>2. QED BY <1>2, <2>1 DEF SettledByOwn
<1>18. PendingIsFollowed'
  <2>1. ASSUME NEW r \in Swaps, rows'[r] = "pending", resume = "begun"
        PROVE \E k \in {"modal", "resume"} : polls'[r][k] # "no"
    BY <1>8, <1>11, <2>1 DEF IInv, PendingIsFollowed, Followed
  <2>2. QED BY <1>2, <2>1 DEF PendingIsFollowed
<1>19. DetailsAreOpened' BY <1>8 DEF Followed
<1>20. QED BY <1>19, <1>12, <1>13, <1>14, <1>15, <1>16, <1>17, <1>18 DEF IInv

LEMMA RejectedInductive == ASSUME IInv, Rejected PROVE IInv'
<1>1. PICK w \in writing : writing' = writing \ {w} /\ Resolved(w.job, FALSE) BY DEF Rejected
<1>2. UNCHANGED <<queue, rows, resume, loaded, final>> BY DEF Rejected
<1>3. TypeOK /\ DetailsAreOpened BY DEF IInv
<1>4. w.job \in Jobs BY <1>3 DEF TypeOK
<1>5. writing' = {} BY <1>1 DEF IInv, OneWriter
<1>6. /\ exec' \in [Swaps -> [pc : {"idle", "row", "follow"}, written : BOOLEAN]]
      /\ polls' \in [Swaps -> [Pollers -> PollStates]]
      /\ Followed
      /\ \A r \in Swaps : exec'[r].written => exec[r].written
  BY <1>1, <1>3, <1>4, ResolvedValues
<1>7. TypeOK' BY <1>2, <1>3, <1>5, <1>6 DEF TypeOK, PollStates
<1>8. OneWriter' BY <1>5 DEF OneWriter
<1>9. JobsOK'
  <2>1. \A i \in DOMAIN queue : JobOK(queue[i]) BY DEF IInv, JobsOK
  <2>2. QED BY <1>2, <1>5, <2>1 DEF JobsOK, JobOK
<1>10. LoadedOK' BY <1>2, <1>6 DEF IInv, LoadedOK, Followed
<1>11. WrittenIsKept' /\ SettledByOwn' BY <1>2, <1>6 DEF IInv, WrittenIsKept, SettledByOwn
<1>12. PendingIsFollowed' /\ DetailsAreOpened' BY <1>2, <1>6 DEF IInv, PendingIsFollowed, Followed
<1>13. QED BY <1>7, <1>8, <1>9, <1>10, <1>11, <1>12 DEF IInv

LEMMA ModalAnswerInductive == ASSUME IInv, NEW s \in Swaps, ModalAnswer(s) PROVE IInv'
<1>1. final[s] \in Terminal BY DEF ModalAnswer, Answer, Describes
<1>2. UNCHANGED <<exec, writing, rows, resume, loaded, final>> BY DEF ModalAnswer
<1>3. "modal" \in Pollers /\ "over" \in PollStates BY DEF Pollers, PollStates
<1>4. \/ Enqueue(s, "modal", final[s]) /\ Moves(s, "modal", "writing")
      \/ Moves(s, "modal", "over") /\ UNCHANGED queue
  BY DEF ModalAnswer, Answer, Describes
<1>5. CASE Enqueue(s, "modal", final[s]) /\ Moves(s, "modal", "writing")
  BY <1>1, <1>2, <1>3, <1>5, AnswerSteps
<1>6. CASE Moves(s, "modal", "over") /\ UNCHANGED queue BY <1>2, <1>3, <1>6, MovesOnly
<1>7. QED BY <1>4, <1>5, <1>6

LEMMA ResumeAnswerInductive == ASSUME IInv, NEW s \in Swaps, ResumeAnswer(s) PROVE IInv'
<1>1. final[s] \in Terminal /\ Enqueue(s, "resume", final[s]) /\ Moves(s, "resume", "writing")
  BY DEF ResumeAnswer, Answer, Describes
<1>2. UNCHANGED <<exec, writing, rows, resume, loaded, final>> BY DEF ResumeAnswer
<1>3. "resume" \in Pollers BY DEF Pollers
<1>4. QED BY <1>1, <1>2, <1>3, AnswerSteps

LEMMA TimesOutInductive == ASSUME IInv, NEW s \in Swaps, TimesOut(s) PROVE IInv'
<1>1. PICK k \in {"modal", "resume"} : Moves(s, k, "over") BY DEF TimesOut
<1>2. k \in Pollers /\ "over" \in PollStates BY DEF Pollers, PollStates
<1>3. QED BY <1>1, <1>2, MovesOnly DEF TimesOut

LEMMA DetailsInductive == ASSUME IInv, NEW s \in Swaps, Details(s) PROVE IInv'
<1>1. "details" \in Pollers /\ {"no", "asking", "writing"} \subseteq PollStates
  BY DEF Pollers, PollStates
<1>2. CASE OpenDetails(s) BY <1>1, <1>2, MovesOnly DEF OpenDetails
<1>3. CASE CloseDetails(s) BY <1>1, <1>3, MovesOnly DEF CloseDetails
<1>4. CASE DetailsAnswer(s)
  <2>1. UNCHANGED <<exec, writing, rows, resume, loaded, final>> BY <1>4 DEF DetailsAnswer
  <2>2. CASE rows[s] = "pending"
    <3>1. PICK r \in AtAddress(s) : final[r] \in Terminal /\ Enqueue(s, "details", final[r])
      BY <1>4, <2>2 DEF DetailsAnswer
    <3>2. Moves(s, "details", "writing") BY <1>4, <2>2 DEF DetailsAnswer
    <3>3. s \in Detailed
      BY <1>4 DEF DetailsAnswer, IInv, DetailsAreOpened
    <3>4. QED BY <1>1, <2>1, <3>1, <3>2, <3>3, AnswerSteps
  <2>3. CASE rows[s] # "pending"
    BY <1>1, <1>4, <2>1, <2>3, MovesOnly DEF DetailsAnswer
  <2>4. QED BY <2>2, <2>3
<1>5. QED BY <1>2, <1>3, <1>4 DEF Details

\* The list the pass works on is the list as it is now, or older.
LEMMA LoadInductive == ASSUME IInv, Load PROVE IInv'
<1>1. TypeOK' BY DEF Load, IInv, TypeOK
<1>2. OneWriter' /\ DetailsAreOpened' BY DEF Load, IInv, OneWriter, DetailsAreOpened
<1>3. JobsOK' BY DEF Load, IInv, JobsOK, JobOK
<1>4. LoadedOK' BY DEF Load, LoadedOK
<1>5. WrittenIsKept' /\ SettledByOwn' BY DEF Load, IInv, WrittenIsKept, SettledByOwn
<1>6. PendingIsFollowed' BY DEF Load, PendingIsFollowed
<1>7. QED BY <1>1, <1>2, <1>3, <1>4, <1>5, <1>6 DEF IInv

\* Without the list there is no pass, and nothing else changes.
LEMMA LoadFailsInductive == ASSUME IInv, LoadFails PROVE IInv'
<1>1. TypeOK' BY DEF LoadFails, IInv, TypeOK
<1>2. OneWriter' /\ DetailsAreOpened' BY DEF LoadFails, IInv, OneWriter, DetailsAreOpened
<1>3. JobsOK' BY DEF LoadFails, IInv, JobsOK, JobOK
<1>4. LoadedOK' BY DEF LoadFails, LoadedOK
<1>5. WrittenIsKept' /\ SettledByOwn' BY DEF LoadFails, IInv, WrittenIsKept, SettledByOwn
<1>6. PendingIsFollowed' BY DEF LoadFails, PendingIsFollowed
<1>7. QED BY <1>1, <1>2, <1>3, <1>4, <1>5, <1>6 DEF IInv

LEMMA ResumeInductive == ASSUME IInv, Resume PROVE IInv'
<1>1. UNCHANGED <<exec, queue, writing, rows, final>> /\ resume = "loaded"
      /\ resume' = "begun" /\ loaded' = {}
  BY DEF Resume
<1>2. polls \in [Swaps -> [Pollers -> PollStates]] BY DEF IInv, TypeOK, PollStates
<1>3. "asking" \in PollStates /\ "resume" \in Pollers /\ "modal" \in Pollers /\ "details" \in Pollers
  BY DEF PollStates, Pollers
<1>4. ASSUME NEW r \in Swaps
      PROVE  /\ polls'[r] \in [Pollers -> PollStates]
             /\ \A j \in Pollers \ {"resume"} : polls'[r][j] = polls[r][j]
             /\ r \in ToResume => polls'[r]["resume"] = "asking"
  <2>1. polls[r] \in [Pollers -> PollStates] BY <1>2
  <2>2. CASE r \in ToResume
    <3>1. polls'[r] = [polls[r] EXCEPT !["resume"] = "asking"] BY <2>2 DEF Resume
    <3>2. QED BY <1>3, <2>1, <3>1
  <2>3. CASE r \notin ToResume
    <3>1. polls'[r] = polls[r] BY <2>3 DEF Resume
    <3>2. QED BY <2>1, <2>3, <3>1
  <2>4. QED BY <2>2, <2>3
<1>5. polls' \in [Swaps -> [Pollers -> PollStates]] BY <1>4 DEF Resume
<1>6. TypeOK' BY <1>1, <1>5 DEF IInv, TypeOK, PollStates
<1>7. OneWriter' /\ DetailsAreOpened'
  BY <1>1, <1>3, <1>4 DEF IInv, OneWriter, DetailsAreOpened
<1>8. JobsOK' BY <1>1 DEF IInv, JobsOK, JobOK
<1>9. LoadedOK' BY <1>1 DEF LoadedOK
<1>10. WrittenIsKept' /\ SettledByOwn' BY <1>1 DEF IInv, WrittenIsKept, SettledByOwn
<1>11. PendingIsFollowed'
  <2>1. ASSUME NEW r \in Swaps, rows[r] = "pending"
        PROVE  \E k \in {"modal", "resume"} : polls'[r][k] # "no"
    <3>1. CASE polls[r]["modal"] # "no" BY <1>3, <1>4, <3>1
    <3>2. CASE polls[r]["modal"] = "no"
      <4>1. r \in loaded BY <1>1, <2>1, <3>2 DEF IInv, LoadedOK
      <4>2. r \in ToResume BY <3>2, <4>1 DEF ToResume, IsActive
      <4>3. polls'[r]["resume"] = "asking" BY <1>4, <4>2
      <4>4. QED BY <4>3
    <3>3. QED BY <3>1, <3>2
  <2>2. QED BY <1>1, <2>1 DEF PendingIsFollowed
<1>12. QED BY <1>6, <1>7, <1>8, <1>9, <1>10, <1>11 DEF IInv

LEMMA DecideInductive == ASSUME IInv, NEW s \in Swaps, Decide(s) PROVE IInv'
<1>1. PICK f \in Terminal : final' = [final EXCEPT ![s] = f] BY DEF Decide
<1>2. final[s] = "open" /\ UNCHANGED <<exec, queue, writing, rows, polls, resume, loaded>>
  BY DEF Decide
<1>3. final' \in [Swaps -> Terminal \cup {"open"}]
      /\ \A r \in Swaps : final[r] # "open" => final'[r] = final[r]
  BY <1>1, <1>2 DEF IInv, TypeOK
<1>4. TypeOK' BY <1>2, <1>3 DEF IInv, TypeOK
<1>5. \A job \in Jobs : JobOK(job) => JobOK(job)'
  BY <1>3 DEF JobOK, Jobs, Terminal
<1>6. JobsOK'
  <2>1. \A i \in DOMAIN queue : queue[i] \in Jobs BY QueueValues DEF IInv
  <2>2. \A i \in DOMAIN queue : JobOK(queue[i])' BY <1>2, <1>5, <2>1 DEF IInv, JobsOK
  <2>3. \A w \in writing : JobOK(w.job)' BY <1>5 DEF IInv, JobsOK, TypeOK
  <2>4. QED BY <1>2, <2>2, <2>3 DEF JobsOK, JobOK
<1>7. OneWriter' /\ LoadedOK' /\ DetailsAreOpened'
  BY <1>2 DEF IInv, OneWriter, LoadedOK, DetailsAreOpened
<1>8. WrittenIsKept' /\ PendingIsFollowed' BY <1>2 DEF IInv, WrittenIsKept, PendingIsFollowed
<1>9. SettledByOwn' BY <1>2, <1>3 DEF IInv, SettledByOwn, Terminal
<1>10. QED BY <1>4, <1>6, <1>7, <1>8, <1>9 DEF IInv

LEMMA RestartInductive == ASSUME IInv, Restart PROVE IInv'
<1>1. NoPolls \in [Swaps -> [Pollers -> PollStates]] BY DEF NoPolls, PollStates
<1>2. NoExec \in [pc : {"idle", "row", "follow"}, written : BOOLEAN] /\ ~NoExec.written
  BY DEF NoExec
<1>3. TypeOK' BY <1>1, <1>2 DEF Restart, IInv, TypeOK, PollStates
<1>4. OneWriter' /\ JobsOK' /\ LoadedOK'
  BY DEF Restart, OneWriter, JobsOK, LoadedOK
<1>5. DetailsAreOpened' BY DEF Restart, DetailsAreOpened, NoPolls, Pollers
<1>6. WrittenIsKept' BY <1>2 DEF Restart, WrittenIsKept
<1>7. SettledByOwn' BY DEF Restart, IInv, SettledByOwn
<1>8. PendingIsFollowed' BY DEF Restart, PendingIsFollowed
<1>9. QED BY <1>3, <1>4, <1>5, <1>6, <1>7, <1>8 DEF IInv

-----------------------------------------------------------------------------
(* The theorems.                                                           *)

\* Every reachable state satisfies the strengthened invariant.
THEOREM HistoryInductive == Spec => []IInv
<1>1. Init => IInv
  <2>1. SUFFICES ASSUME Init PROVE IInv OBVIOUS
  <2>2. TypeOK BY <2>1 DEF Init, TypeOK, NoExec, NoPolls, Statuses
  <2>3. OneWriter /\ JobsOK /\ LoadedOK BY <2>1 DEF Init, OneWriter, JobsOK, LoadedOK
  <2>4. DetailsAreOpened BY <2>1 DEF Init, DetailsAreOpened, NoPolls, Pollers
  <2>5. WrittenIsKept /\ SettledByOwn /\ PendingIsFollowed
    BY <2>1 DEF Init, WrittenIsKept, SettledByOwn, PendingIsFollowed, NoExec, Terminal
  <2>6. QED BY <2>2, <2>3, <2>4, <2>5 DEF IInv
<1>2. IInv /\ [Next]_vars => IInv'
  <2>1. SUFFICES ASSUME IInv, [Next]_vars PROVE IInv' OBVIOUS
  <2>2. CASE \E s \in Swaps : Wallet(s)
    BY <2>1, <2>2, DepositedInductive, ModalAnswerInductive, ResumeAnswerInductive,
       TimesOutInductive DEF Wallet
  <2>3. CASE \E s \in Swaps : Details(s) BY <2>1, <2>3, DetailsInductive
  <2>4. CASE \E s \in Swaps : Decide(s) BY <2>1, <2>4, DecideInductive
  <2>5. CASE Begin BY <2>1, <2>5, BeginInductive
  <2>6. CASE Commit BY <2>1, <2>6, CommitInductive
  <2>7. CASE Rejected BY <2>1, <2>7, RejectedInductive
  <2>8. CASE Load BY <2>1, <2>8, LoadInductive
  <2>9. CASE LoadFails BY <2>1, <2>9, LoadFailsInductive
  <2>10. CASE Resume BY <2>1, <2>10, ResumeInductive
  <2>11. CASE Restart BY <2>1, <2>11, RestartInductive
  <2>12. CASE UNCHANGED vars
    <3>1. TypeOK' /\ OneWriter' /\ LoadedOK' /\ DetailsAreOpened'
      BY <2>1, <2>12 DEF vars, IInv, TypeOK, OneWriter, LoadedOK, DetailsAreOpened
    <3>2. JobsOK' BY <2>1, <2>12 DEF vars, IInv, JobsOK, JobOK
    <3>3. WrittenIsKept' /\ SettledByOwn' /\ PendingIsFollowed'
      BY <2>1, <2>12 DEF vars, IInv, WrittenIsKept, SettledByOwn, PendingIsFollowed
    <3>4. QED BY <3>1, <3>2, <3>3 DEF IInv
  <2>13. QED BY <2>1, <2>2, <2>3, <2>4, <2>5, <2>6, <2>7, <2>8, <2>9, <2>10, <2>11, <2>12
    DEF Next
<1>3. QED BY <1>1, <1>2, PTL DEF Spec

\* Every reachable state of the history, its queue and its pollers is well typed.
THEOREM HistoryTypeCorrect == Spec => []TypeOK
<1>1. IInv => TypeOK BY DEF IInv
<1>2. QED BY <1>1, HistoryInductive, PTL

\* A row a submission counts as written is never dropped by another write.
THEOREM WrittenRowsAreKept == Spec => []WrittenIsKept
<1>1. IInv => WrittenIsKept BY DEF IInv
<1>2. QED BY <1>1, HistoryInductive, PTL

\* A settled row whose details are not looked at carries 1Click's answer for
\* that swap, however many swaps share its address.
THEOREM RowsAreSettledByOwn == Spec => []SettledByOwn
<1>1. IInv => SettledByOwn BY DEF IInv
<1>2. QED BY <1>1, HistoryInductive, PTL

\* After the resume pass no pending row is left that this session never asks about.
THEOREM PendingRowsAreFollowed == Spec => []PendingIsFollowed
<1>1. IInv => PendingIsFollowed BY DEF IInv
<1>2. QED BY <1>1, HistoryInductive, PTL
-----------------------------------------------------------------------------
(* Rows move forward.                                                      *)

Adds(job) == job.by = "exec"

\* A row's first write waits or is under way while its submission waits for it,
\* once, and the row is not there yet.
FirstWriteOnce ==
    /\ \A i \in DOMAIN queue : Adds(queue[i]) => exec[queue[i].swap].pc = "row"
    /\ \A w \in writing : Adds(w.job) => exec[w.job.swap].pc = "row"
    /\ \A i, j \in DOMAIN queue :
         Adds(queue[i]) /\ Adds(queue[j]) /\ queue[i].swap = queue[j].swap => i = j
    /\ \A i \in DOMAIN queue, w \in writing :
         Adds(queue[i]) /\ Adds(w.job) => queue[i].swap # w.job.swap
    /\ \A s \in Swaps : exec[s].pc = "row" => rows[s] = "none"

\* Where a write that is queued ends up.
LEMMA AppendValues ==
    ASSUME TypeOK, NEW job \in Jobs, queue' = Append(queue, job)
    PROVE  \A i \in DOMAIN queue' :
             \/ i = Len(queue) + 1 /\ queue'[i] = job
             \/ i \in DOMAIN queue /\ queue'[i] = queue[i]
<1>1. queue \in Seq(Jobs) BY DEF TypeOK
<1>2. QED BY <1>1

\* A status that is queued adds no row.
LEMMA StatusKeepsFirst ==
    ASSUME IInv, FirstWriteOnce, NEW s \in Swaps, NEW by \in Pollers,
           NEW status \in Terminal, Enqueue(s, by, status), UNCHANGED <<exec, writing, rows>>
    PROVE  FirstWriteOnce'
<1> DEFINE job == [swap |-> s, by |-> by, status |-> status]
<1>1. job \in Jobs /\ ~Adds(job) BY DEF Jobs, Pollers, Adds
<1>2. queue' = Append(queue, job) /\ TypeOK BY DEF Enqueue, IInv
<1>3. \A i \in DOMAIN queue' : Adds(queue'[i]) => i \in DOMAIN queue /\ queue'[i] = queue[i]
  BY <1>1, <1>2, AppendValues
<1>4. QED BY <1>3 DEF FirstWriteOnce

\* The submission queues its row once.
LEMMA DepositedKeepsFirst ==
    ASSUME IInv, FirstWriteOnce, NEW s \in Swaps, Deposited(s) PROVE FirstWriteOnce'
<1> DEFINE job == [swap |-> s, by |-> "exec", status |-> "pending"]
<1>1. job \in Jobs /\ TypeOK BY DEF Jobs, IInv
<1>2. queue' = Append(queue, job) BY DEF Deposited, Enqueue
<1>3. \A i \in DOMAIN queue' :
        \/ i = Len(queue) + 1 /\ queue'[i] = job
        \/ i \in DOMAIN queue /\ queue'[i] = queue[i]
  BY <1>1, <1>2, AppendValues
<1>4. exec[s].pc = "idle" /\ rows[s] = "none" /\ UNCHANGED <<writing, rows>>
  BY DEF Deposited, NoExec
<1>5. /\ exec'[s].pc = "row" /\ \A r \in Swaps \ {s} : exec'[r] = exec[r]
  BY <1>1 DEF Deposited, TypeOK
<1>6. /\ \A i \in DOMAIN queue : queue[i].swap \in Swaps
      /\ \A w \in writing : w.job.swap \in Swaps
  <2>1. \A i \in DOMAIN queue : queue[i] \in Jobs BY <1>1, QueueValues
  <2>2. \A w \in writing : w.job \in Jobs BY <1>1 DEF TypeOK
  <2>3. QED BY <2>1, <2>2 DEF Jobs
<1>7. /\ \A i \in DOMAIN queue : Adds(queue[i]) => queue[i].swap # s
      /\ \A w \in writing : Adds(w.job) => w.job.swap # s
  BY <1>4 DEF FirstWriteOnce
<1>8. \A i \in DOMAIN queue' : Adds(queue'[i]) => exec'[queue'[i].swap].pc = "row"
  <2>1. SUFFICES ASSUME NEW i \in DOMAIN queue', Adds(queue'[i])
                 PROVE  exec'[queue'[i].swap].pc = "row"
    OBVIOUS
  <2>2. CASE queue'[i] = job BY <1>5, <2>2
  <2>3. CASE i \in DOMAIN queue /\ queue'[i] = queue[i]
    BY <1>5, <1>6, <1>7, <2>1, <2>3 DEF FirstWriteOnce
  <2>4. QED BY <1>3, <2>2, <2>3
<1>9. \A w \in writing' : Adds(w.job) => exec'[w.job.swap].pc = "row"
  BY <1>4, <1>5, <1>6, <1>7 DEF FirstWriteOnce
<1>10. \A i, j \in DOMAIN queue' :
         Adds(queue'[i]) /\ Adds(queue'[j]) /\ queue'[i].swap = queue'[j].swap => i = j
  BY <1>3, <1>7 DEF FirstWriteOnce
<1>11. \A i \in DOMAIN queue', w \in writing' :
         Adds(queue'[i]) /\ Adds(w.job) => queue'[i].swap # w.job.swap
  BY <1>3, <1>4, <1>7 DEF FirstWriteOnce
<1>12. \A r \in Swaps : exec'[r].pc = "row" => rows'[r] = "none"
  BY <1>4, <1>5 DEF FirstWriteOnce
<1>13. QED BY <1>8, <1>9, <1>10, <1>11, <1>12 DEF FirstWriteOnce

LEMMA BeginKeepsFirst == ASSUME IInv, FirstWriteOnce, Begin PROVE FirstWriteOnce'
<1>1. TypeOK BY DEF IInv
<1>2. /\ 1 \in DOMAIN queue /\ Head(queue) = queue[1]
      /\ \A i \in DOMAIN queue' : i + 1 \in DOMAIN queue /\ queue'[i] = queue[i + 1]
      /\ \A w \in writing' : w.job = queue[1]
  BY <1>1, QueueValues DEF Begin
<1>3. \A i \in DOMAIN queue' : i \in Nat /\ i # 0 /\ i + 1 # 1
  <2>1. queue' \in Seq(Jobs) BY <1>1, QueueValues DEF Begin
  <2>2. QED BY <2>1
<1>4. QED BY <1>2, <1>3 DEF FirstWriteOnce, Begin

\* The write under way is over, and its submission goes on.
LEMMA WrittenKeepsFirst ==
    ASSUME IInv, FirstWriteOnce, Commit \/ Rejected PROVE FirstWriteOnce'
<1>1. PICK w \in writing :
        /\ writing' = writing \ {w}
        /\ Resolved(w.job, TRUE) \/ Resolved(w.job, FALSE)
        /\ rows' = Write(w.job, w.read) \/ rows' = rows
  BY DEF Commit, Rejected
<1> DEFINE job == w.job
           s == job.swap
<1>2. w.read = rows /\ writing' = {} BY <1>1 DEF IInv, OneWriter
<1>3. job \in Jobs /\ s \in Swaps /\ rows \in [Swaps -> Statuses] /\ UNCHANGED queue
  BY DEF IInv, TypeOK, Jobs, Commit, Rejected
<1>4. /\ \A r \in Swaps \ {s} : exec'[r] = exec[r] /\ rows'[r] = rows[r]
      /\ Adds(job) => exec'[s].pc = "follow"
      /\ ~Adds(job) => exec' = exec /\ (rows[s] = "none" => rows'[s] = "none")
  BY <1>1, <1>2, <1>3 DEF Resolved, Write, IInv, TypeOK, Adds, Jobs, Pollers
<1>5. Adds(job) => \A i \in DOMAIN queue : Adds(queue[i]) => queue[i].swap # s
  BY DEF FirstWriteOnce
<1>6. \A i \in DOMAIN queue : queue[i].swap \in Swaps
  <2>1. \A i \in DOMAIN queue : queue[i] \in Jobs BY QueueValues DEF IInv
  <2>2. QED BY <2>1 DEF Jobs
<1>7. QED BY <1>2, <1>3, <1>4, <1>5, <1>6 DEF FirstWriteOnce

\* The other steps queue no row, and neither begin nor end a write.
LEMMA OthersKeepFirst ==
    ASSUME FirstWriteOnce, UNCHANGED <<exec, queue, writing, rows>> PROVE FirstWriteOnce'
BY DEF FirstWriteOnce

LEMMA PollersKeepFirst ==
    ASSUME IInv, FirstWriteOnce, NEW s \in Swaps,
           ModalAnswer(s) \/ ResumeAnswer(s) \/ TimesOut(s) \/ Details(s)
    PROVE  FirstWriteOnce'
<1>1. CASE UNCHANGED <<exec, queue, writing, rows>> BY <1>1, OthersKeepFirst
<1>2. CASE (\E r \in AtAddress(s), k \in Pollers :
             final[r] \in Terminal /\ Enqueue(s, k, final[r]))
           /\ UNCHANGED <<exec, writing, rows>>
  BY <1>2, StatusKeepsFirst
<1>3. CASE ModalAnswer(s) BY <1>1, <1>2, <1>3 DEF ModalAnswer, Answer, Pollers
<1>4. CASE ResumeAnswer(s) BY <1>1, <1>2, <1>4 DEF ResumeAnswer, Answer, Pollers
<1>5. CASE TimesOut(s) BY <1>1, <1>5 DEF TimesOut
<1>6. CASE Details(s)
  BY <1>1, <1>2, <1>6 DEF Details, OpenDetails, CloseDetails, DetailsAnswer, Pollers
<1>7. QED BY <1>3, <1>4, <1>5, <1>6

\* Every row has one first write, and none once it is there.
THEOREM HistoryWritesOnce == Spec => [](IInv /\ FirstWriteOnce)
<1>1. Init => FirstWriteOnce
  BY DEF Init, FirstWriteOnce, NoExec
<1>2. IInv /\ FirstWriteOnce /\ [Next]_vars => FirstWriteOnce'
  <2>1. SUFFICES ASSUME IInv, FirstWriteOnce, [Next]_vars PROVE FirstWriteOnce' OBVIOUS
  <2>2. CASE \E s \in Swaps : Wallet(s) \/ Details(s)
    BY <2>1, <2>2, DepositedKeepsFirst, PollersKeepFirst DEF Wallet
  <2>3. CASE Begin BY <2>1, <2>3, BeginKeepsFirst
  <2>4. CASE Commit \/ Rejected BY <2>1, <2>4, WrittenKeepsFirst
  <2>5. CASE Load \/ LoadFails \/ Resume \/ (\E s \in Swaps : Decide(s)) \/ UNCHANGED vars
    BY <2>1, <2>5, OthersKeepFirst DEF Load, LoadFails, Resume, Decide, vars
  <2>6. CASE Restart
    BY <2>6 DEF Restart, FirstWriteOnce, NoExec
  <2>7. QED BY <2>1, <2>2, <2>3, <2>4, <2>5, <2>6 DEF Next
<1>3. QED BY <1>1, <1>2, HistoryInductive, PTL DEF Spec

\* A row appears pending, settles once and by its own swap's answer, and is never
\* dropped or taken back, whatever order the writers and the answers come in.
THEOREM RowsOnlyMoveForward == Spec => RowsMoveForward
<1> DEFINE Forward ==
      \A s \in Swaps : rows'[s] # rows[s] =>
          \/ rows[s] = "none" /\ rows'[s] = "pending"
          \/ rows[s] = "pending" /\ rows'[s] = final[s]
          \/ s \in Detailed /\ rows[s] # "none" /\ rows'[s] \in Terminal
<1>1. ASSUME IInv, FirstWriteOnce, [Next]_vars PROVE Forward
  <2>1. CASE rows' = rows BY <2>1
  <2>2. CASE Commit
    <3>1. PICK w \in writing : rows' = Write(w.job, w.read) BY <2>2 DEF Commit
    <3> DEFINE job == w.job
    <3>2. w.read = rows /\ job \in Jobs /\ job.swap \in Swaps /\ rows \in [Swaps -> Statuses]
      BY <1>1 DEF IInv, OneWriter, TypeOK, Jobs
    <3>3. \A s \in Swaps \ {job.swap} : rows'[s] = rows[s] BY <3>1, <3>2 DEF Write
    <3>4. CASE Adds(job)
      <4>1. rows[job.swap] = "none" BY <1>1, <3>2, <3>4 DEF FirstWriteOnce
      <4>2. rows'[job.swap] = "pending"
        BY <1>1, <3>1, <3>2, <3>4 DEF Write, Adds, IInv, JobsOK, JobOK
      <4>3. QED BY <3>3, <4>1, <4>2
    <3>5. CASE ~Adds(job)
      <4>1. /\ job.status \in Terminal
            /\ job.swap \notin Detailed => job.status = final[job.swap]
        BY <1>1, <3>5 DEF IInv, JobsOK, JobOK, Adds
      <4>2. /\ rows'[job.swap] # rows[job.swap] =>
                 rows[job.swap] # "none" /\ rows'[job.swap] = job.status
        BY <3>1, <3>2, <3>5 DEF Write, Adds
      <4>3. rows[job.swap] \in Terminal /\ job.swap \notin Detailed =>
              rows[job.swap] = final[job.swap]
        BY <1>1, <3>2 DEF IInv, SettledByOwn
      <4>4. rows[job.swap] \in Terminal \cup {"none", "pending"} BY <3>2 DEF Statuses
      <4>5. QED BY <3>3, <4>1, <4>2, <4>3, <4>4
    <3>6. QED BY <3>4, <3>5
  <2>3. Commit \/ rows' = rows
    BY <1>1 DEF Next, Wallet, Deposited, ModalAnswer, ResumeAnswer, TimesOut, Details,
                OpenDetails, CloseDetails, DetailsAnswer, Decide, Begin, Rejected, Load,
                LoadFails, Resume, Restart, vars
  <2>4. QED BY <2>1, <2>2, <2>3
<1>2. QED BY <1>1, HistoryWritesOnce, PTL DEF Spec, RowsMoveForward
=============================================================================
