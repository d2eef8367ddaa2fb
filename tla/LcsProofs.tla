------------------------------ MODULE LcsProofs ------------------------------
(***************************************************************************)
(* Proofs about Lcs, for every number of components, of reports and of     *)
(* crashes.                                                                *)
(***************************************************************************)
EXTENDS Lcs, TLAPS

\* What LCS has listed for a component was reported, in order.
Listed ==
  \A c \in Components :
    /\ \A a \in 1 .. Len(actions[c]) : actions[c][a] <= sent[c]
    /\ \A a, b \in 1 .. Len(actions[c]) : a < b => actions[c][a] < actions[c][b]

\* The reports of a component that LCS has not served are in the order they
\* were made, and later than those it has listed.
Queued ==
  /\ \A k \in 1 .. Len(inbox) : inbox[k][2] <= sent[inbox[k][1]]
  /\ \A k \in 1 .. Len(inbox) : \A a \in 1 .. Len(actions[inbox[k][1]]) :
       actions[inbox[k][1]][a] < inbox[k][2]
  /\ \A k, l \in 1 .. Len(inbox) : k < l /\ inbox[k][1] = inbox[l][1] => inbox[k][2] < inbox[l][2]

\* What LCS confirmed is the last it has listed.
Confirmed ==
  \A c \in Components :
    acked[c] => actions[c] # <<>> /\ actions[c][Len(actions[c])] = sent[c]

\* Before it listens LCS has got no report.
Unheard == mpc # "listen" => inbox = <<>> /\ \A c \in Components : ~acked[c]

\* Whoever is pinged is a component.
Pinged == cpc # "next" => i \in Components

LInv == TypeOK /\ Listed /\ Queued /\ Confirmed /\ Unheard /\ Pinged

\* What SMT needs to know of a served or a new report.
LEMMA HeadTail ==
  ASSUME NEW S, NEW s \in Seq(S), s # <<>>
  PROVE  /\ Head(s) = s[1] /\ Head(s) \in S /\ Tail(s) \in Seq(S) /\ Len(s) \in Nat /\ Len(s) >= 1
         /\ Len(Tail(s)) = Len(s) - 1 /\ \A k \in 1 .. Len(Tail(s)) : Tail(s)[k] = s[k + 1]
  OBVIOUS

\* A sequence and one more element.
LEMMA Appended ==
  ASSUME NEW S, NEW s \in Seq(S), NEW x \in S
  PROVE  /\ Append(s, x) \in Seq(S) /\ Len(s) \in Nat /\ Len(Append(s, x)) = Len(s) + 1
         /\ Append(s, x)[Len(s) + 1] = x
         /\ \A k \in 1 .. Len(s) : Append(s, x)[k] = s[k]
  OBVIOUS

\* An element of a sequence is in its set.
LEMMA ElementOf ==
  ASSUME NEW S, NEW s \in Seq(S), NEW k \in 1 .. Len(s)
  PROVE  s[k] \in S
  OBVIOUS

\* The invariant holds when LCS starts.
LEMMA LInvInit ==
  ASSUME Init
  PROVE  LInv
  BY LcsAssumption DEF Init, LInv, TypeOK, Listed, Queued, Confirmed, Unheard, Pinged, Components

\* Steps that touch neither the actions nor the reports.
LEMMA Untouched ==
  ASSUME LInv, TypeOK', Pinged', UNCHANGED <<actions, inbox, sent, acked>>, mpc = "listen" => mpc' = "listen"
  PROVE  LInv'
  BY DEF LInv, Listed, Queued, Confirmed, Unheard

\* Registering and pinging components keeps it.
LEMMA RegisterKeeps ==
  ASSUME LInv, LCS_COMPONENT_register
  PROVE  LInv'
<1>1. TypeOK /\ inbox = <<>> /\ \A c \in Components : ~acked[c]
  BY DEF LInv, LCS_COMPONENT_register, Unheard
<1>2. i \in Components BY <1>1, LcsAssumption DEF LCS_COMPONENT_register, TypeOK, Components
<1>3. /\ actions' = [actions EXCEPT ![i] = <<0>>] /\ active' = [active EXCEPT ![i] = 1]
      /\ cpc' \in {"waiting", "lost"}
      /\ UNCHANGED <<known, allows, mpc, i, inbox, alive, thread, sent, acked, crashes>>
  BY DEF LCS_COMPONENT_register, Connected, config
<1>4. <<0>> \in Seq(0 .. MaxReports) BY LcsAssumption
<1>5. TypeOK' BY <1>1, <1>2, <1>3, <1>4 DEF TypeOK
<1>6. Listed'
  <2> SUFFICES ASSUME NEW c \in Components
               PROVE  /\ \A a \in 1 .. Len(actions'[c]) : actions'[c][a] <= sent[c]
                      /\ \A a, b \in 1 .. Len(actions'[c]) : a < b => actions'[c][a] < actions'[c][b]
    BY <1>3 DEF Listed
  <2>1. CASE c = i
    <3>1. actions'[c] = <<0>> /\ sent[c] \in Nat BY <1>1, <1>3, <2>1, LcsAssumption DEF TypeOK
    <3>2. QED BY <3>1
  <2>2. CASE c # i BY <1>1, <1>3, <2>2 DEF LInv, Listed, TypeOK
  <2>3. QED BY <2>1, <2>2
<1>7. Queued' BY <1>1, <1>3 DEF Queued
<1>8. Confirmed' /\ Unheard' /\ Pinged' BY <1>1, <1>2, <1>3 DEF Confirmed, Unheard, Pinged
<1>9. QED BY <1>5, <1>6, <1>7, <1>8 DEF LInv

\* Taking a report into the list of actions keeps it.
LEMMA ListenerKeeps ==
  ASSUME LInv, DCPAM_LCS_listener
  PROVE  LInv'
<1> DEFINE c == Head(inbox)[1]
           n == Head(inbox)[2]
<1>1. TypeOK /\ Listed /\ Queued /\ Confirmed /\ Unheard BY DEF LInv
<1>2. /\ mpc = "listen" /\ inbox # <<>> /\ inbox' = Tail(inbox)
      /\ actions' = IF c \in known THEN [actions EXCEPT ![c] = Append(@, n)] ELSE actions
      /\ \/ /\ thread[c] = "reporting" /\ sent[c] = n
            /\ thread' = [thread EXCEPT ![c] = "working"]
            /\ acked' = [acked EXCEPT ![c] = (c \in known)]
         \/ UNCHANGED <<thread, acked>>
      /\ UNCHANGED <<known, allows, mpc, i, cpc, active, alive, sent, crashes>>
  BY DEF DCPAM_LCS_listener, LCS_COMPONENT_ACTION_register, Answered, config
<1>3. inbox \in Seq(Components \X (1 .. MaxReports)) BY <1>1 DEF TypeOK
<1>4. /\ Head(inbox) = inbox[1] /\ Len(inbox) \in Nat /\ Len(inbox) >= 1
      /\ inbox' \in Seq(Components \X (1 .. MaxReports)) /\ Len(inbox') = Len(inbox) - 1
      /\ \A k \in 1 .. Len(inbox') : inbox'[k] = inbox[k + 1]
  BY <1>2, <1>3, HeadTail
<1>5. c \in Components /\ n \in 1 .. MaxReports
  <2>1. Head(inbox) \in Components \X (1 .. MaxReports) BY <1>2, <1>3, HeadTail
  <2>2. QED BY <2>1
<1>6. \A d \in Components : sent[d] \in Int /\ actions[d] \in Seq(0 .. MaxReports)
  BY <1>1, LcsAssumption DEF TypeOK
<1>6a. \A d \in Components : \A a \in 1 .. Len(actions[d]) : actions[d][a] \in Int
  BY <1>6, ElementOf, LcsAssumption
<1>7. /\ n <= sent[c] /\ \A a \in 1 .. Len(actions[c]) : actions[c][a] < n
      /\ \A k \in 1 .. Len(inbox') : inbox'[k][1] = c => n < inbox'[k][2]
  <2>1. 1 \in 1 .. Len(inbox) BY <1>4
  <2>2. \A k \in 1 .. Len(inbox') : k + 1 \in 1 .. Len(inbox) /\ 1 < k + 1 BY <1>4
  <2>3. inbox[1][1] = c /\ inbox[1][2] = n BY <1>4
  <2> HIDE DEF c, n
  <2>4. QED BY <1>1, <1>4, <2>1, <2>2, <2>3 DEF Queued
<1> HIDE DEF c, n
<1>8. ~acked[c]
  <2> SUFFICES ASSUME acked[c] PROVE FALSE OBVIOUS
  <2>1. actions[c] # <<>> /\ actions[c][Len(actions[c])] = sent[c] BY <1>1, <1>5 DEF Confirmed
  <2>2. Len(actions[c]) \in 1 .. Len(actions[c]) BY <1>5, <1>6, <2>1
  <2>3. QED BY <1>5, <1>6, <1>7, <2>1, <2>2
<1>9. /\ \A d \in Components \ {c} : actions'[d] = actions[d] /\ acked'[d] = acked[d]
      /\ c \in known => actions'[c] = Append(actions[c], n)
      /\ c \notin known => actions'[c] = actions[c]
      /\ acked'[c] => c \in known /\ sent[c] = n
  BY <1>1, <1>2, <1>5, <1>8 DEF TypeOK
<1>10. n \in 0 .. MaxReports BY <1>5, LcsAssumption
<1>11. c \in known =>
         /\ Append(actions[c], n) \in Seq(0 .. MaxReports)
         /\ Len(actions'[c]) = Len(actions[c]) + 1 /\ Len(actions[c]) \in Nat
         /\ actions'[c][Len(actions[c]) + 1] = n
         /\ \A a \in 1 .. Len(actions[c]) : actions'[c][a] = actions[c][a]
  BY <1>5, <1>6, <1>9, <1>10, Appended
<1>12. TypeOK'
  <2>1. actions' \in [Components -> Seq(0 .. MaxReports)] BY <1>1, <1>2, <1>5, <1>11 DEF TypeOK
  <2>2. acked' \in [Components -> BOOLEAN] /\ thread' \in [Components -> {"idle", "working", "reporting"}]
    <3>1. (c \in known) \in BOOLEAN OBVIOUS
    <3>2. QED BY <1>1, <1>2, <1>5, <3>1 DEF TypeOK
  <2>3. QED BY <1>1, <1>2, <1>4, <2>1, <2>2 DEF TypeOK
<1>13. Listed'
  <2> SUFFICES ASSUME NEW d \in Components
               PROVE  /\ \A a \in 1 .. Len(actions'[d]) : actions'[d][a] <= sent[d]
                      /\ \A a, b \in 1 .. Len(actions'[d]) : a < b => actions'[d][a] < actions'[d][b]
    BY <1>2 DEF Listed
  <2>1. CASE d # c \/ c \notin known
    <3>1. actions'[d] = actions[d] BY <1>9, <2>1
    <3>2. QED BY <1>1, <3>1 DEF Listed
  <2>2. CASE d = c /\ c \in known
    <3>1. \A a \in 1 .. Len(actions'[c]) : a = Len(actions[c]) + 1 \/ a \in 1 .. Len(actions[c])
      BY <1>11, <2>2
    <3>2. \A a \in 1 .. Len(actions[c]) : actions'[c][a] = actions[c][a] /\ actions[c][a] \in Int /\ actions[c][a] < n
      BY <1>5, <1>7, <1>11, <1>6a, <2>2
    <3>3. actions'[c][Len(actions[c]) + 1] = n /\ Len(actions[c]) \in Nat BY <1>11, <2>2
    <3>4. ASSUME NEW a \in 1 .. Len(actions'[c]) PROVE actions'[c][a] <= sent[c]
      <4>1. n \in Int /\ sent[c] \in Int /\ n <= sent[c] BY <1>5, <1>6, <1>7
      <4>2. actions'[c][a] \in Int /\ actions'[c][a] <= n
        <5>1. CASE a = Len(actions[c]) + 1 BY <3>3, <4>1, <5>1
        <5>2. CASE a \in 1 .. Len(actions[c])
          <6>1. actions'[c][a] \in Int /\ actions'[c][a] < n BY <3>2, <5>2
          <6>2. QED BY <4>1, <6>1
        <5>3. QED BY <3>1, <5>1, <5>2
      <4>3. QED BY <4>1, <4>2
    <3>5. ASSUME NEW a \in 1 .. Len(actions'[c]), NEW b \in 1 .. Len(actions'[c]), a < b
          PROVE  actions'[c][a] < actions'[c][b]
      <4>1. a \in 1 .. Len(actions[c]) BY <1>11, <2>2, <3>5
      <4>2. CASE b = Len(actions[c]) + 1 BY <3>2, <3>3, <4>1, <4>2
      <4>3. CASE b \in 1 .. Len(actions[c]) BY <1>1, <1>5, <3>2, <3>5, <4>1, <4>3 DEF Listed
      <4>4. QED BY <3>1, <4>2, <4>3
    <3>6. QED BY <2>2, <3>4, <3>5
  <2>3. QED BY <2>1, <2>2
<1>14. Queued'
  <2>1. \A k \in 1 .. Len(inbox') : k + 1 \in 1 .. Len(inbox) /\ inbox'[k] = inbox[k + 1] BY <1>4
  <2>2. \A k \in 1 .. Len(inbox') : inbox'[k][1] \in Components /\ inbox'[k][2] \in Int
    BY <1>4, LcsAssumption
  <2>3. \A k \in 1 .. Len(inbox') : inbox'[k][2] <= sent'[inbox'[k][1]] BY <1>1, <1>2, <2>1 DEF Queued
  <2>4. ASSUME NEW k \in 1 .. Len(inbox'), NEW a \in 1 .. Len(actions'[inbox'[k][1]])
        PROVE  actions'[inbox'[k][1]][a] < inbox'[k][2]
    <3> DEFINE d == inbox'[k][1]
    <3>1. d \in Components BY <2>2
    <3>2. CASE d # c \/ c \notin known
      <4>1. actions'[d] = actions[d] BY <1>9, <3>1, <3>2
      <4>2. QED BY <1>1, <2>1, <4>1 DEF Queued
    <3>3. CASE d = c /\ c \in known
      <4>1. n < inbox'[k][2] BY <1>7, <3>3
      <4>2. a \in 1 .. Len(actions[c]) \/ a = Len(actions[c]) + 1 BY <1>11, <3>3
      <4>3. actions'[c][a] \in Int /\ actions'[c][a] <= n
        <5>1. n \in Int BY <1>5
        <5>2. CASE a = Len(actions[c]) + 1
          <6>1. actions'[c][a] = n BY <1>11, <3>3, <5>2
          <6>2. QED BY <5>1, <6>1
        <5>3. CASE a \in 1 .. Len(actions[c])
          <6>1. actions'[c][a] = actions[c][a] BY <1>11, <3>3, <5>3
          <6>2. actions[c][a] \in Int /\ actions[c][a] < n BY <1>5, <1>7, <1>6a, <5>3
          <6>3. QED BY <5>1, <6>1, <6>2
        <5>4. QED BY <4>2, <5>2, <5>3
      <4>4. QED BY <1>5, <2>2, <3>3, <4>1, <4>3
    <3>4. QED BY <3>2, <3>3
  <2>5. \A k, l \in 1 .. Len(inbox') : k < l /\ inbox'[k][1] = inbox'[l][1] => inbox'[k][2] < inbox'[l][2]
    <3> SUFFICES ASSUME NEW k \in 1 .. Len(inbox'), NEW l \in 1 .. Len(inbox'), k < l, inbox'[k][1] = inbox'[l][1]
                 PROVE  inbox'[k][2] < inbox'[l][2]
      OBVIOUS
    <3>1. k + 1 < l + 1 BY <1>4
    <3>2. QED BY <1>1, <2>1, <3>1 DEF Queued
  <2>6. QED BY <2>3, <2>4, <2>5 DEF Queued
<1>15. Confirmed'
  <2> SUFFICES ASSUME NEW d \in Components, acked'[d]
               PROVE  actions'[d] # <<>> /\ actions'[d][Len(actions'[d])] = sent[d]
    BY <1>2 DEF Confirmed
  <2>1. CASE d # c BY <1>1, <1>9, <2>1 DEF Confirmed
  <2>2. CASE d = c
    <3>1. c \in known /\ sent[c] = n BY <1>9, <2>2
    <3>2. QED BY <1>11, <2>2, <3>1
  <2>3. QED BY <2>1, <2>2
<1>16. Unheard' /\ Pinged' BY <1>2 DEF LInv, Unheard, Pinged
<1>17. QED BY <1>12, <1>13, <1>14, <1>15, <1>16 DEF LInv

\* A component that sends a report keeps it.
LEMMA SendKeeps ==
  ASSUME LInv, NEW c \in Components, LCS_REPORT_send(c)
  PROVE  LInv'
<1>1. TypeOK /\ Listed /\ Queued /\ Confirmed /\ Unheard BY DEF LInv
<1> DEFINE n == sent[c] + 1
           r == <<c, n>>
<1>2. /\ sent[c] < MaxReports /\ sent' = [sent EXCEPT ![c] = n] /\ acked' = [acked EXCEPT ![c] = FALSE]
      /\ \/ mpc = "listen" /\ inbox' = Append(inbox, r) /\ thread' = [thread EXCEPT ![c] = "reporting"]
         \/ mpc # "listen" /\ inbox' = inbox /\ thread' = [thread EXCEPT ![c] = "working"]
      /\ UNCHANGED <<known, allows, mpc, i, cpc, active, actions, alive, crashes>>
  BY DEF LCS_REPORT_send, config, lcs
<1>3. /\ sent[c] \in 0 .. MaxReports /\ MaxReports \in Nat /\ n \in 1 .. MaxReports
      /\ \A d \in Components : sent[d] \in Int /\ actions[d] \in Seq(0 .. MaxReports)
      /\ inbox \in Seq(Components \X (1 .. MaxReports))
  <2>1. sent \in [Components -> 0 .. MaxReports] /\ MaxReports \in Nat BY <1>1, LcsAssumption DEF TypeOK
  <2>2. sent[c] \in 0 .. MaxReports /\ n \in 1 .. MaxReports BY <1>2, <2>1
  <2>3. \A d \in Components : sent[d] \in Int BY <2>1
  <2>4. QED BY <1>1, <2>1, <2>2, <2>3 DEF TypeOK
<1>14. \A d \in Components : \A a \in 1 .. Len(actions[d]) : actions[d][a] \in Int
  BY <1>3, ElementOf, LcsAssumption
<1>4. r \in Components \X (1 .. MaxReports) /\ r[1] = c /\ r[2] = n BY <1>3
<1>5. sent'[c] = n /\ ~acked'[c] /\ \A d \in Components \ {c} : sent'[d] = sent[d] /\ acked'[d] = acked[d]
  BY <1>1, <1>2 DEF TypeOK
<1>6. \A d \in Components : sent[d] <= sent'[d] /\ sent'[d] \in Int
  <2>1. sent[c] \in Int /\ sent'[c] = sent[c] + 1 BY <1>3, <1>5
  <2>2. sent[c] <= sent'[c] /\ sent'[c] \in Int BY <2>1
  <2>3. \A d \in Components : sent[d] \in Int /\ sent[d] <= sent[d] BY <1>3
  <2>4. QED BY <1>5, <2>2, <2>3
<1> HIDE DEF r
<1>7. mpc = "listen" =>
        /\ inbox' \in Seq(Components \X (1 .. MaxReports)) /\ Len(inbox) \in Nat
        /\ Len(inbox') = Len(inbox) + 1 /\ inbox'[Len(inbox) + 1] = r
        /\ \A k \in 1 .. Len(inbox) : inbox'[k] = inbox[k]
  <2>1. mpc = "listen" => inbox' = Append(inbox, r) BY <1>2
  <2> DEFINE S == Components \X (1 .. MaxReports)
  <2>2. inbox \in Seq(S) /\ r \in S BY <1>3, <1>4
  <2> HIDE DEF S
  <2>3. mpc = "listen" => inbox' \in Seq(S) BY <2>1, <2>2, Appended
  <2>4. QED BY <2>1, <2>2, <2>3, Appended DEF S
<1>8. TypeOK'
  <2>1. inbox' \in Seq(Components \X (1 .. MaxReports)) BY <1>2, <1>3, <1>7
  <2>2. sent' \in [Components -> 0 .. MaxReports] /\ acked' \in [Components -> BOOLEAN]
        /\ thread' \in [Components -> {"idle", "working", "reporting"}]
    <3>1. n \in 0 .. MaxReports BY <1>3
    <3> HIDE DEF n
    <3>2. QED BY <1>1, <1>2, <3>1 DEF TypeOK
  <2>3. QED BY <1>1, <1>2, <2>1, <2>2 DEF TypeOK
<1>9. Listed'
  <2> SUFFICES ASSUME NEW d \in Components
               PROVE  /\ \A a \in 1 .. Len(actions[d]) : actions[d][a] <= sent'[d]
                      /\ \A a, b \in 1 .. Len(actions[d]) : a < b => actions[d][a] < actions[d][b]
    BY <1>2 DEF Listed
  <2>1. \A a \in 1 .. Len(actions[d]) : actions[d][a] \in Int /\ actions[d][a] <= sent[d]
    BY <1>1, <1>14 DEF Listed
  <2>2. sent'[d] \in Int /\ sent[d] \in Int /\ sent[d] <= sent'[d] BY <1>3, <1>6
  <2>3. \A a \in 1 .. Len(actions[d]) : actions[d][a] <= sent'[d] BY <2>1, <2>2
  <2>4. QED BY <1>1, <2>3 DEF Listed
<1>10. Queued'
  <2>1. CASE mpc # "listen"
    <3>1. inbox' = <<>> BY <1>1, <1>2, <2>1 DEF Unheard
    <3>2. QED BY <3>1 DEF Queued
  <2>2. CASE mpc = "listen"
    <3>1. \A k \in 1 .. Len(inbox') : k \in 1 .. Len(inbox) \/ (k = Len(inbox) + 1 /\ inbox'[k] = r)
      BY <1>7, <2>2
    <3>2. \A k \in 1 .. Len(inbox) : inbox[k][1] \in Components /\ inbox[k][2] \in Int
      BY <1>3
    <3>3. \A d \in Components : \A a \in 1 .. Len(actions[d]) : actions[d][a] \in Int BY <1>14
    <3>4. \A k \in 1 .. Len(inbox') : inbox'[k][2] <= sent'[inbox'[k][1]]
      <4> SUFFICES ASSUME NEW k \in 1 .. Len(inbox') PROVE inbox'[k][2] <= sent'[inbox'[k][1]] OBVIOUS
      <4>1. CASE k = Len(inbox) + 1 /\ inbox'[k] = r BY <1>3, <1>4, <1>5, <4>1
      <4>2. CASE k \in 1 .. Len(inbox)
        <5>1. inbox'[k] = inbox[k] /\ inbox[k][2] <= sent[inbox[k][1]] BY <1>1, <1>7, <2>2, <4>2 DEF Queued
        <5>2. inbox[k][1] \in Components /\ inbox[k][2] \in Int BY <3>2, <4>2
        <5> DEFINE x == inbox[k][1]
                   y == inbox[k][2]
        <5>3. sent[x] \in Int /\ sent'[x] \in Int /\ sent[x] <= sent'[x] BY <1>3, <1>6, <5>2
        <5>4. y \in Int /\ y <= sent[x] /\ inbox'[k][2] = y /\ inbox'[k][1] = x BY <5>1, <5>2
        <5> HIDE DEF x, y
        <5>5. y <= sent'[x] BY <5>3, <5>4
        <5>6. QED BY <5>4, <5>5
      <4>3. QED BY <3>1, <4>1, <4>2
    <3>5. \A k \in 1 .. Len(inbox') : \A a \in 1 .. Len(actions[inbox'[k][1]]) :
            actions[inbox'[k][1]][a] < inbox'[k][2]
      <4> SUFFICES ASSUME NEW k \in 1 .. Len(inbox'), NEW a \in 1 .. Len(actions[inbox'[k][1]])
                   PROVE  actions[inbox'[k][1]][a] < inbox'[k][2]
        OBVIOUS
      <4>1. CASE k = Len(inbox) + 1 /\ inbox'[k] = r
        <5>1. actions[c][a] <= sent[c] /\ a \in 1 .. Len(actions[c]) BY <1>1, <1>4, <4>1 DEF Listed
        <5>2. actions[c][a] \in Int /\ sent[c] \in Int BY <1>3, <3>3, <5>1
        <5>3. inbox'[k][1] = c /\ inbox'[k][2] = sent[c] + 1 BY <1>4, <4>1
        <5>4. actions[c][a] < sent[c] + 1 BY <5>1, <5>2
        <5>5. QED BY <5>3, <5>4
      <4>2. CASE k \in 1 .. Len(inbox) BY <1>1, <1>7, <2>2, <4>2 DEF Queued
      <4>3. QED BY <3>1, <4>1, <4>2
    <3>6. \A k, l \in 1 .. Len(inbox') : k < l /\ inbox'[k][1] = inbox'[l][1] => inbox'[k][2] < inbox'[l][2]
      <4> SUFFICES ASSUME NEW k \in 1 .. Len(inbox'), NEW l \in 1 .. Len(inbox'), k < l, inbox'[k][1] = inbox'[l][1]
                   PROVE  inbox'[k][2] < inbox'[l][2]
        OBVIOUS
      <4>1. k \in 1 .. Len(inbox) BY <1>7, <2>2
      <4>2. CASE l \in 1 .. Len(inbox) BY <1>1, <1>7, <2>2, <4>1, <4>2 DEF Queued
      <4>3. CASE l = Len(inbox) + 1 /\ inbox'[l] = r
        <5>1. inbox'[k] = inbox[k] /\ inbox[k][1] = c BY <1>4, <1>7, <2>2, <4>1, <4>3
        <5>2. inbox[k][2] <= sent[c] /\ inbox[k][2] \in Int BY <1>1, <3>2, <4>1, <5>1 DEF Queued
        <5>3. inbox'[l][2] = sent[c] + 1 /\ sent[c] \in Int BY <1>3, <1>4, <4>3
        <5>4. inbox[k][2] < sent[c] + 1 BY <5>2, <5>3
        <5>5. QED BY <5>1, <5>3, <5>4
      <4>4. QED BY <3>1, <4>2, <4>3
    <3>7. QED BY <1>2, <3>4, <3>5, <3>6 DEF Queued
  <2>3. QED BY <2>1, <2>2
<1>11. Confirmed' BY <1>1, <1>2, <1>5 DEF Confirmed
<1>12. Unheard' /\ Pinged'
  BY <1>1, <1>2, <1>5 DEF LInv, Unheard, Pinged
<1>13. QED BY <1>8, <1>9, <1>10, <1>11, <1>12 DEF LInv

\* A component that crashes with its reports under way keeps it.
LEMMA CrashKeeps ==
  ASSUME LInv, NEW c \in Components, Crash(c)
  PROVE  LInv'
<1>1. /\ crashes < MaxCrashes /\ crashes' = crashes + 1 /\ alive' = [alive EXCEPT ![c] = FALSE]
      /\ thread' = [thread EXCEPT ![c] = "idle"] /\ acked' = [acked EXCEPT ![c] = FALSE]
      /\ ((cpc' = "lost" /\ cpc = "waiting") \/ cpc' = cpc)
      /\ UNCHANGED <<known, allows, mpc, i, active, actions, inbox, sent>>
  BY DEF Crash, config
<1>2. TypeOK' BY <1>1, LcsAssumption DEF LInv, TypeOK
<1>3. Listed' /\ Queued' BY <1>1 DEF LInv, Listed, Queued
<1>4. \A d \in Components : acked'[d] => acked[d] BY <1>1 DEF LInv, TypeOK
<1>5. Confirmed' /\ Unheard' /\ Pinged' BY <1>1, <1>4 DEF LInv, Confirmed, Unheard, Pinged
<1>6. QED BY <1>2, <1>3, <1>5 DEF LInv

\* Every step of LCS and of the components keeps it.
LEMMA LInvNext ==
  ASSUME LInv, [Next]_vars
  PROVE  LInv'
<1>1. TypeOK /\ Pinged /\ COMPONENTS_len \in Nat BY LcsAssumption DEF LInv
<1>2. ASSUME UNCHANGED <<actions, inbox, sent, acked>>, mpc = "listen" => mpc' = "listen", TypeOK', Pinged'
      PROVE  LInv'
  BY <1>2, Untouched
<1>3. CASE Registered
  <2>1. i \in Components BY <1>1, <1>3 DEF Registered, Pinged
  <2>2. TypeOK' /\ Pinged' BY <1>1, <1>3, <2>1 DEF Registered, TypeOK, Pinged, Components, config
  <2>3. QED BY <1>2, <1>3, <2>2 DEF Registered
<1>4. CASE CreateWorker
  <2>1. cpc = "next"
    BY <1>1, <1>4 DEF CreateWorker, Pinged, Components
  <2>2. TypeOK' /\ Pinged' BY <1>1, <1>4, <2>1 DEF CreateWorker, TypeOK, Pinged, config
  <2>3. QED BY <1>2, <1>4, <2>2 DEF CreateWorker
<1>5. CASE Listen
  <2>1. TypeOK' /\ Pinged' BY <1>1, <1>5 DEF Listen, TypeOK, Pinged, config
  <2>2. QED BY <1>2, <1>5, <2>1 DEF Listen
<1>6. CASE Check
  <2>1. TypeOK' /\ Pinged' BY <1>1, <1>6 DEF Check, Connected, TypeOK, Pinged, Components, config
  <2>2. QED BY <1>2, <1>6, <2>1 DEF Check
<1>7. CASE Checked
  <2>1. i \in Components BY <1>1, <1>7 DEF Checked, Pinged
  <2>2. active' \in [Components -> {0, 1}] BY <1>1, <1>7, <2>1 DEF Checked, TypeOK
  <2>3. TypeOK' /\ Pinged' BY <1>1, <1>7, <2>1, <2>2 DEF Checked, TypeOK, Pinged, Components, config
  <2>4. QED BY <1>2, <1>7, <2>3 DEF Checked
<1>8. CASE Sleep
  <2>1. cpc = "next" BY <1>1, <1>8 DEF Sleep, Pinged, Components
  <2>2. TypeOK' /\ Pinged' BY <1>1, <1>8, <2>1 DEF Sleep, TypeOK, Pinged, config
  <2>3. QED BY <1>2, <1>8, <2>2 DEF Sleep
<1>9. ASSUME NEW c \in Components, Finish(c) \/ Pong(c) \/ Restart(c) PROVE LInv'
  <2>1. TypeOK' /\ Pinged' BY <1>1, <1>9 DEF Finish, Pong, Restart, TypeOK, Pinged, config, lcs
  <2>2. UNCHANGED <<actions, inbox, sent, acked, mpc>> BY <1>9 DEF Finish, Pong, Restart, lcs
  <2>3. QED BY <1>2, <2>1, <2>2
<1>10. CASE UNCHANGED vars
  <2>1. TypeOK' /\ Pinged' BY <1>1, <1>10 DEF TypeOK, Pinged, vars
  <2>2. UNCHANGED <<actions, inbox, sent, acked, mpc>> BY <1>10 DEF vars
  <2>3. QED BY <1>2, <2>1, <2>2
<1>11. QED
  BY <1>3, <1>4, <1>5, <1>6, <1>7, <1>8, <1>9, <1>10, RegisterKeeps, ListenerKeeps, SendKeeps, CrashKeeps
  DEF Next, Main, Worker

\* The variables of LCS and of the components it watches keep their types.
THEOREM LcsTypeCorrect == Spec => []TypeOK
<1>1. Init => LInv BY LInvInit
<1>2. LInv /\ [Next]_vars => LInv' BY LInvNext
<1>3. LInv => TypeOK BY DEF LInv
<1>4. QED BY <1>1, <1>2, <1>3, PTL DEF Spec

\* DCPAM_LCS_listener lists the reports of every component once and in the order
\* LCS_REPORT_send made them, whichever components crash in between, and what
\* it confirmed last is the last in the list.
THEOREM ReportsListedInOrder == Spec => []ListedInOrder
<1>1. Init => LInv BY LInvInit
<1>2. LInv /\ [Next]_vars => LInv' BY LInvNext
<1>3. LInv => ListedInOrder BY DEF LInv, Listed, Confirmed, ListedInOrder
<1>4. QED BY <1>1, <1>2, <1>3, PTL DEF Spec
=============================================================================
