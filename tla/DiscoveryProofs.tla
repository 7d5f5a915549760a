--------------------------- MODULE DiscoveryProofs ---------------------------
(***************************************************************************)
(* Discovery is correctly typed, implements Presence, forgets in time and  *)
(* is remembered and found, for any targets, delays and number of starts.  *)
(***************************************************************************)
EXTENDS Discovery, SequenceTheorems, TLAPS

Kinds == {"alive", "byebye", "response"}

Own(part) ==
  /\ part \subseteq Messages
  /\ \A d \in part : d.server = id /\ d.sent = now /\ (Hears(d) => d.age = MaxAge)

(* max-age is a whole number of ticks.                                     *)
LEMMA MaxAgeNat == MaxAge \in Nat
<1>1. Interval \div TicksPerSecond \in Nat
  BY TimeAssumption
<1>2. max_age \in Nat
  BY <1>1, TimeAssumption DEF max_age, Least
<1> QED BY <1>2, TimeAssumption DEF MaxAge

(* What is sent is an advertisement of the process at hand, of this moment.*)
LEMMA AdsType ==
  ASSUME NEW kind \in Kinds, NEW targets \in Seq(Targets), NEW port \in 0 .. MaxSearches,
         id \in Servers, now \in Nat
  PROVE  /\ Own(Ads(kind, targets, port))
         /\ \A d \in Ads(kind, targets, port) : d.kind = kind
<1>1. \A i \in DOMAIN targets : targets[i] \in Targets
  BY ElementOfSeq
<1>2. ASSUME NEW t \in Targets
      PROVE  /\ Advertisement(kind, t, port) \in Messages
             /\ Advertisement(kind, t, port).kind = kind
             /\ Advertisement(kind, t, port).server = id
             /\ Advertisement(kind, t, port).sent = now
             /\ Hears(Advertisement(kind, t, port)) => Advertisement(kind, t, port).age = MaxAge
  BY MaxAgeNat DEF Advertisement, Messages, Kinds, Hears
<1> QED BY <1>1, <1>2 DEF Ads, Range, Own

(* Every target is in a round of announcements.                            *)
LEMMA AdsAll ==
  ASSUME NEW kind, NEW t \in Targets
  PROVE  Advertisement(kind, t, 0) \in Ads(kind, ALL, 0)
  BY AllAssumption DEF Ads, Range

(* A search is answered for targets there are.                             *)
LEMMA AnswersType ==
  ASSUME NEW datagram PROVE Answers(datagram) \in Seq(Targets)
<1>1. ASSUME NEW st PROVE matching(st) \in Seq(Targets)
  BY AllAssumption DEF matching
<1> QED BY <1>1 DEF Answers

(* What is cut short is a part of it.                                      *)
LEMMA BegunType ==
  ASSUME NEW kind \in Kinds, NEW targets \in Seq(Targets), NEW port \in 0 .. MaxSearches,
         id \in Servers, now \in Nat, NEW sent \in Begun(kind, targets, port)
  PROVE  Own(sent)
<1>1. PICK n \in 0 .. Len(targets) : sent = Ads(kind, SubSeq(targets, 1, n), port)
  BY DEF Begun
<1>2. SubSeq(targets, 1, n) \in Seq(Targets)
  BY SubSeqProperties, LenProperties
<1>3. Own(Ads(kind, SubSeq(targets, 1, n), port))
  BY <1>2, AdsType
<1> QED BY <1>1, <1>3

LEMMA PortType == ASSUME NEW a \in Asked PROVE a.port \in 0 .. MaxSearches
  BY TimeAssumption DEF Asked

LEMMA InterruptedType ==
  ASSUME TypeOK, NEW sent \in Interrupted
  PROVE  Own(sent)
<1>1. PICK a \in Announcing, b \in Answering, c \in Leaving : sent = a \cup b \cup c
  BY DEF Interrupted
<1>2. id \in Servers /\ now \in Nat /\ 0 \in 0 .. MaxSearches
  BY TimeAssumption DEF TypeOK
<1>0. Own({})
  BY DEF Own
<1>3. Own(a)
  <2>1. \A part \in Begun("alive", ALL, 0) : Own(part)
    BY <1>2, BegunType, AllAssumption DEF Kinds
  <2> QED BY <1>0, <2>1 DEF Announcing
<1>4. Own(b)
  <2>1. CASE main = "serve" /\ inbox # <<>>
    <3>1. Head(inbox) \in Asked
      BY <2>1, HeadTailProperties DEF TypeOK
    <3>2. Head(inbox).port \in 0 .. MaxSearches
      BY <3>1, PortType
    <3>3. \A part \in Begun("response", Answers(Head(inbox).datagram), Head(inbox).port) :
            Own(part)
      BY <3>2, <1>2, BegunType, AnswersType DEF Kinds
    <3> QED BY <2>1, <3>3 DEF Answering
  <2>2. CASE ~(main = "serve" /\ inbox # <<>>)
    BY <2>2, <1>0 DEF Answering
  <2> QED BY <2>1, <2>2
<1>5. Own(c)
  <2>1. \A part \in Begun("byebye", ALL, 0) : Own(part)
    BY <1>2, BegunType, AllAssumption DEF Kinds
  <2> QED BY <1>0, <2>1 DEF Leaving
<1> QED BY <1>1, <1>3, <1>4, <1>5 DEF Own

-----------------------------------------------------------------------------
(* A configuration that is let through meets every expect().               *)
LEMMA LoadExpected == ASSUME NEW file, load(file) PROVE Expected(file)
  BY DEF load, Expected

Mains == {"off", "ssdp", "http", "announce", "serve", "byebye"}

LEMMA TypeInit == Init => TypeOK
<1> 1 \in Servers /\ 0 \in 0 .. MaxStarts /\ 0 \in 0 .. MaxSearches /\ 0 \in 0 .. MaxLost
  BY TimeAssumption DEF Servers
<1> <<>> \in Seq(Asked)
  BY EmptySeq
<1>1. Init => lease \in [Servers -> [Targets -> Nat]] /\ ended \in [Servers -> Nat]
  BY DEF Init, NoLease
<1>2. Init => {asking, search} \subseteq Asked \cup {None} /\ {steady, clean} \subseteq BOOLEAN
  BY DEF Init
<1> QED BY <1>1, <1>2 DEF Init, TypeOK

(* The end of a process, however it comes.                                 *)
LEMMA TypeEnd ==
  ASSUME TypeOK, End, net' \subseteq Messages, clean' \in BOOLEAN
  PROVE  TypeOK'
<1> <<>> \in Seq(Asked)
  BY EmptySeq
<1> ended' \in [Servers -> Nat]
  BY DEF TypeOK, End
<1> QED BY DEF TypeOK, End, point

LEMMA TypeStep == TypeOK /\ [Next]_vars => TypeOK'
<1> SUFFICES ASSUME TypeOK, [Next]_vars PROVE TypeOK'
  OBVIOUS
<1> id \in Servers /\ now \in Nat /\ 0 \in 0 .. MaxSearches
  BY TimeAssumption DEF TypeOK
<1> Own(Ads("alive", ALL, 0)) /\ Own(Ads("byebye", ALL, 0))
  BY AdsType, AllAssumption DEF Kinds
<1>1. CASE Start
  <2>1. starts' \in 0 .. MaxStarts /\ starts' \in Servers /\ 1 \in Servers
    BY <1>1, TimeAssumption DEF Start, TypeOK, Servers
  <2>2. main' \in Mains /\ id' \in Servers /\ (main' # "off" => id' <= starts')
    BY <1>1, <2>1, LoadExpected DEF Start, TypeOK, resolve_uuid, Mains, Servers
  <2> QED BY <1>1, <2>1, <2>2 DEF Start, TypeOK, Mains, network, point
<1>2. CASE BindSsdp
  <2>1. CASE End /\ UNCHANGED <<net, clean>>
    BY <2>1, TypeEnd DEF TypeOK
  <2>2. CASE main' = "http" /\ UNCHANGED <<config, now, starts, id, wake, inbox, network, point, history>>
    BY <1>2, <2>2 DEF BindSsdp, TypeOK, network, point, history
  <2> QED BY <1>2, <2>1, <2>2 DEF BindSsdp
<1>3. CASE BindHttp
  <2>1. CASE End /\ UNCHANGED <<net, clean>>
    BY <2>1, TypeEnd DEF TypeOK
  <2>2. CASE ~(End /\ UNCHANGED <<net, clean>>)
    BY <1>3, <2>2 DEF BindHttp, TypeOK, network, point
  <2> QED BY <2>1, <2>2
<1>4. CASE AnnounceFirst
  <2>1. net' \subseteq Messages
    BY <1>4 DEF AnnounceFirst, TypeOK, Own
  <2>2. wake' \in Nat
    BY <1>4, TimeAssumption DEF AnnounceFirst
  <2> QED BY <1>4, <2>1, <2>2 DEF AnnounceFirst, TypeOK, point, history
<1>5. CASE Announce
  <2>1. net' \subseteq Messages
    BY <1>5 DEF Announce, TypeOK, Own
  <2>2. wake' \in Nat
    BY <1>5, TimeAssumption DEF Announce
  <2> QED BY <1>5, <2>1, <2>2 DEF Announce, TypeOK, point, history
<1>6. CASE Respond
  <2>1. Head(inbox) \in Asked /\ Tail(inbox) \in Seq(Asked)
    BY <1>6, HeadTailProperties DEF TypeOK, Respond
  <2>2. Head(inbox).port \in 0 .. MaxSearches
    BY <2>1, PortType
  <2>3. Own(Ads("response", Answers(Head(inbox).datagram), Head(inbox).port))
    BY <2>2, AdsType, AnswersType DEF Kinds
  <2>4. net' \subseteq Messages
    BY <1>6, <2>3 DEF Respond, TypeOK, Own
  <2> QED BY <1>6, <2>1, <2>4 DEF Respond, TypeOK, point, history
<1>7. CASE Stop
  <2>1. net' \subseteq Messages
    BY <1>7, InterruptedType DEF Stop, TypeOK, Own
  <2> QED BY <1>7, <2>1 DEF Stop, TypeOK, point
<1>8. CASE SayByebye
  <2>1. net' \subseteq Messages
    BY <1>8 DEF SayByebye, TypeOK, Own
  <2> QED BY <1>8, <2>1, TypeEnd DEF SayByebye, TypeOK
<1>9. CASE Kill
  <2>1. net' \subseteq Messages
    BY <1>9, InterruptedType DEF Kill, TypeOK, Own
  <2> QED BY <1>9, <2>1, TypeEnd DEF Kill, TypeOK
<1>10. ASSUME NEW d \in net, Deliver(d) PROVE TypeOK'
  <2>1. d \in Messages
    BY DEF TypeOK
  <2>2. d.server \in Servers /\ d.target \in Targets /\ now + d.age \in Nat
    BY <2>1, MaxAgeNat DEF Messages
  <2>3. lease' \in [Servers -> [Targets -> Nat]]
    BY <1>10, <2>2 DEF Deliver, TypeOK
  <2>4. net' \subseteq Messages /\ met' \subseteq Targets /\ found' \subseteq Targets
    BY <1>10, <2>2 DEF Deliver, TypeOK
  <2> QED BY <1>10, <2>3, <2>4 DEF Deliver, TypeOK, process
<1>11. ASSUME NEW d \in net, Lose(d) PROVE TypeOK'
  <2>1. lost' \in 0 .. MaxLost
    BY <1>11, TimeAssumption DEF Lose, TypeOK
  <2>2. missed' \in Nat /\ net' \subseteq Messages
    BY <1>11 DEF Lose, TypeOK
  <2> QED BY <1>11, <2>1, <2>2 DEF Lose, TypeOK, process, point
<1>12. ASSUME NEW datagram \in Searches, Ask(datagram) PROVE TypeOK'
  <2>0. ports \in Nat /\ MaxSearches \in Nat /\ ports < MaxSearches /\ ports' = ports + 1
    BY <1>12, TimeAssumption DEF Ask, TypeOK
  <2>1. ports' \in 1 .. MaxSearches /\ ports' = ports + 1
    BY <2>0
  <2>2. asking' \in Asked /\ ports' \in 0 .. MaxSearches
    BY <1>12, <2>1, TimeAssumption DEF Ask, Asked
  <2> QED BY <1>12, <2>2 DEF Ask, TypeOK, process
<1>13. CASE DeliverSearch
  <2>1. asking \in Asked
    BY <1>13 DEF DeliverSearch, TypeOK
  <2>2. inbox' \in Seq(Asked)
    BY <1>13, <2>1, AppendProperties DEF DeliverSearch, TypeOK
  <2> QED BY <1>13, <2>2 DEF DeliverSearch, TypeOK, point, history
<1>14. CASE LoseSearch
  <2>1. lost' \in 0 .. MaxLost
    BY <1>14, TimeAssumption DEF LoseSearch, TypeOK
  <2> QED BY <1>14, <2>1 DEF LoseSearch, TypeOK, process, point
<1>15. CASE Close
  BY <1>15 DEF Close, TypeOK, process, network
<1>16. CASE Tick
  BY <1>16 DEF Tick, TypeOK, process, network, point, history
<1>17. CASE UNCHANGED vars
  BY <1>17 DEF vars, TypeOK, process, network, point, history
<1> QED
  BY <1>1, <1>2, <1>3, <1>4, <1>5, <1>6, <1>7, <1>8, <1>9, <1>10, <1>11, <1>12, <1>13,
     <1>14, <1>15, <1>16, <1>17 DEF Next, Process, Network

(* Discovery is correctly typed: no expect() of main fails, a process has  *)
(* an identity of its own or the configured one, and every datagram is one *)
(* of a target there is.                                                   *)
THEOREM TypeCorrect == Spec => []TypeOK
  BY TypeInit, TypeStep, PTL DEF Spec

-----------------------------------------------------------------------------
(* What is on its way is no older than Delay, and of a process that runs   *)
(* or ended later than it was sent.                                        *)
NetInv ==
  \A d \in net :
    /\ d.sent <= now /\ now <= d.sent + Delay
    /\ Hears(d) => d.age = MaxAge
    /\ d.server \in Running \/ d.sent <= ended[d.server]

(* What is believed was heard no later than that.                          *)
LeaseInv ==
  \A s \in Servers, t \in Targets :
    /\ lease[s][t] <= now + MaxAge
    /\ s \in Running \/ lease[s][t] <= ended[s] + Delay + MaxAge

LEMMA NetInit == Init => NetInv /\ LeaseInv
  BY MaxAgeNat, TimeAssumption DEF Init, NetInv, LeaseInv, NoLease, Running

(* Both survive what sends from a process that goes on ...                 *)
LEMMA NetSends ==
  ASSUME TypeOK, NetInv, LeaseInv, NEW part, Own(part), net' = net \cup part,
         main # "off", main' # "off", UNCHANGED <<now, id, lease, ended>>
  PROVE  NetInv' /\ LeaseInv'
<1>1. Running = {id} /\ Running' = {id}
  BY DEF Running
<1>2. LeaseInv'
  BY <1>1 DEF LeaseInv
<1>3. ASSUME NEW d \in net'
      PROVE  /\ d.sent <= now /\ now <= d.sent + Delay /\ (Hears(d) => d.age = MaxAge)
             /\ d.server \in {id} \/ d.sent <= ended[d.server]
  <2>1. CASE d \in net
    BY <2>1, <1>1 DEF NetInv
  <2>2. CASE d \in part
    BY <2>2, TimeAssumption DEF Own, TypeOK
  <2> QED BY <2>1, <2>2
<1> QED BY <1>1, <1>2, <1>3 DEF NetInv

(* ... and the end of one, whatever it sends last.                         *)
LEMMA NetEnds ==
  ASSUME TypeOK, NetInv, LeaseInv, NEW part, Own(part), net' = net \cup part,
         main # "off", End
  PROVE  NetInv' /\ LeaseInv'
<1>1. Running = {id} /\ Running' = {} /\ now' = now /\ lease' = lease
  BY DEF Running, End, point
<1>2. ended' = [ended EXCEPT ![id] = now] /\ ended'[id] = now
       /\ \A s \in Servers \ {id} : ended'[s] = ended[s]
  BY DEF End, TypeOK
<1>3. ASSUME NEW s \in Servers, NEW t \in Targets
      PROVE  lease[s][t] <= now + MaxAge /\ lease[s][t] <= ended'[s] + Delay + MaxAge
  <2>1. CASE s = id
    <3>1. lease[s][t] \in Nat /\ now \in Nat /\ Delay \in Nat
      BY TimeAssumption DEF TypeOK
    <3>2. lease[s][t] <= now + MaxAge /\ ended'[s] = now
      BY <2>1, <1>2 DEF LeaseInv
    <3> QED BY <3>1, <3>2, MaxAgeNat
  <2>2. CASE s # id
    BY <2>2, <1>1, <1>2 DEF LeaseInv
  <2> QED BY <2>1, <2>2
<1>4. ASSUME NEW d \in net'
      PROVE  /\ d.sent <= now /\ now <= d.sent + Delay /\ (Hears(d) => d.age = MaxAge)
             /\ d.sent <= ended'[d.server]
  <2>1. CASE d \in net
    <3>1. /\ d.server \in Servers /\ d.sent <= now /\ now <= d.sent + Delay
          /\ Hears(d) => d.age = MaxAge
      BY <2>1 DEF NetInv, TypeOK, Messages
    <3>2. CASE d.server = id
      BY <3>1, <3>2, <1>2
    <3>3. CASE d.server # id
      BY <2>1, <3>1, <3>3, <1>1, <1>2 DEF NetInv
    <3> QED BY <3>1, <3>2, <3>3
  <2>2. CASE d \in part
    <3>1. d.server = id /\ d.sent = now /\ (Hears(d) => d.age = MaxAge)
      BY <2>2 DEF Own
    <3>2. now \in Nat /\ Delay \in Nat
      BY TimeAssumption DEF TypeOK
    <3> QED BY <3>1, <3>2, <1>2
  <2> QED BY <2>1, <2>2
<1> QED BY <1>1, <1>3, <1>4 DEF NetInv, LeaseInv

LEMMA NetStep == TypeOK /\ NetInv /\ LeaseInv /\ [Next]_vars => NetInv' /\ LeaseInv'
<1> SUFFICES ASSUME TypeOK, NetInv, LeaseInv, [Next]_vars PROVE NetInv' /\ LeaseInv'
  OBVIOUS
<1>0. Own({}) /\ Own(Ads("alive", ALL, 0)) /\ Own(Ads("byebye", ALL, 0))
  <2>1. id \in Servers /\ now \in Nat /\ 0 \in 0 .. MaxSearches
    BY TimeAssumption DEF TypeOK
  <2> QED BY <2>1, AdsType, AllAssumption DEF Kinds, Own
<1>1. ASSUME UNCHANGED <<net, lease, now, ended>>, Running \subseteq Running'
      PROVE  NetInv' /\ LeaseInv'
  BY <1>1 DEF NetInv, LeaseInv
<1>2. ASSUME UNCHANGED <<net, lease, now, ended, main, id>> PROVE NetInv' /\ LeaseInv'
  BY <1>1, <1>2 DEF Running
<1>3. CASE Start
  BY <1>1, <1>3 DEF Start, Running, network, point
<1>4. ASSUME End, UNCHANGED net, main # "off" PROVE NetInv' /\ LeaseInv'
  BY <1>0, <1>4, NetEnds
<1>5. CASE BindSsdp
  BY <1>1, <1>4, <1>5 DEF BindSsdp, Running, network, point, history
<1>6. CASE BindHttp
  BY <1>1, <1>4, <1>6 DEF BindHttp, Running, network, point
<1>7. CASE AnnounceFirst
  BY <1>0, <1>7, NetSends DEF AnnounceFirst, point, history
<1>8. CASE Announce
  BY <1>0, <1>8, NetSends DEF Announce, point, history
<1>9. CASE Respond
  <2>1. Head(inbox) \in Asked
    BY <1>9, HeadTailProperties DEF TypeOK, Respond
  <2>2. id \in Servers /\ now \in Nat /\ Head(inbox).port \in 0 .. MaxSearches
    BY <2>1, PortType DEF TypeOK
  <2>3. Own(Ads("response", Answers(Head(inbox).datagram), Head(inbox).port))
    BY <2>2, AdsType, AnswersType DEF Kinds
  <2> QED BY <1>9, <2>3, NetSends DEF Respond, point, history
<1>10. CASE Stop
  BY <1>10, InterruptedType, NetSends DEF Stop, point
<1>11. CASE SayByebye
  BY <1>0, <1>11, NetEnds DEF SayByebye
<1>12. CASE Kill
  BY <1>12, InterruptedType, NetEnds DEF Kill
<1>13. ASSUME NEW d \in net, Deliver(d) PROVE NetInv' /\ LeaseInv'
  <2>1. Running' = Running /\ now' = now /\ ended' = ended /\ net' \subseteq net
    BY <1>13 DEF Deliver, Running, process
  <2>2. d.server \in Servers /\ d.target \in Targets /\ ended[d.server] \in Nat
    BY DEF TypeOK, Messages
  <2>3. lease' = [lease EXCEPT ![d.server][d.target] = IF Hears(d) THEN now + MaxAge ELSE 0]
    BY <1>13 DEF Deliver, NetInv
  <2>4. now <= d.sent + Delay /\ d.sent \in Nat /\ now \in Nat /\ Delay \in Nat
        /\ (d.server \in Running \/ d.sent <= ended[d.server])
    BY TimeAssumption DEF NetInv, TypeOK, Messages
  <2>5. ASSUME NEW s \in Servers, NEW t \in Targets
        PROVE  lease'[s][t] <= now + MaxAge
               /\ (s \in Running \/ lease'[s][t] <= ended[s] + Delay + MaxAge)
    <3>1. CASE s = d.server /\ t = d.target
      <4>1. lease'[s][t] = IF Hears(d) THEN now + MaxAge ELSE 0
        BY <2>2, <2>3, <3>1 DEF TypeOK
      <4> QED BY <2>2, <2>4, <3>1, <4>1, MaxAgeNat
    <3>2. CASE ~(s = d.server /\ t = d.target)
      <4>1. lease'[s][t] = lease[s][t]
        BY <2>2, <2>3, <3>2 DEF TypeOK
      <4> QED BY <4>1 DEF LeaseInv
    <3> QED BY <3>1, <3>2
  <2> QED BY <2>1, <2>5 DEF NetInv, LeaseInv
<1>14. ASSUME NEW d \in net, Lose(d) PROVE NetInv' /\ LeaseInv'
  <2>1. Running' = Running /\ now' = now /\ ended' = ended /\ net' \subseteq net /\ lease' = lease
    BY <1>14 DEF Lose, Running, process, point
  <2> QED BY <2>1 DEF NetInv, LeaseInv
<1>15. ASSUME NEW datagram \in Searches, Ask(datagram) PROVE NetInv' /\ LeaseInv'
  BY <1>2, <1>15 DEF Ask, process
<1>16. CASE DeliverSearch \/ LoseSearch \/ Close
  BY <1>2, <1>16 DEF DeliverSearch, LoseSearch, Close, process, network, point, history
<1>17. CASE Tick
  <2>1. Running' = Running /\ UNCHANGED <<net, lease, ended>> /\ now' = now + 1
    BY <1>17 DEF Tick, Running, process, network, point, history
  <2>2. \A d \in net : now < d.sent + Delay /\ d.sent \in Nat
    BY <1>17 DEF Tick, Prompt, TypeOK, Messages
  <2>3. NetInv'
    <3>1. now \in Nat /\ Delay \in Nat
      BY TimeAssumption DEF TypeOK
    <3>2. \A d \in net : d.sent <= now + 1 /\ now + 1 <= d.sent + Delay
      BY <2>2, <3>1 DEF NetInv
    <3> QED BY <2>1, <3>2 DEF NetInv
  <2>4. \A s \in Servers, t \in Targets : lease[s][t] \in Nat
    BY DEF TypeOK
  <2>5. LeaseInv'
    BY <2>1, <2>4, MaxAgeNat DEF LeaseInv, TypeOK
  <2> QED BY <2>3, <2>5
<1>18. CASE UNCHANGED vars
  BY <1>2, <1>18 DEF vars, process, network, point, history
<1> QED
  BY <1>3, <1>5, <1>6, <1>7, <1>8, <1>9, <1>10, <1>11, <1>12, <1>13, <1>14, <1>15, <1>16,
     <1>17, <1>18 DEF Next, Process, Network

LEMMA NetAlways == Spec => [](TypeOK /\ NetInv /\ LeaseInv)
  BY TypeInit, TypeStep, NetInit, NetStep, PTL DEF Spec

(* However the process ends, nobody believes in it for longer than the     *)
(* last word it may have sent is on its way and good for.                  *)
THEOREM Forgotten == Spec => []ForgottenInTime
<1>1. TypeOK /\ NetInv /\ LeaseInv => ForgottenInTime
  <2> SUFFICES ASSUME TypeOK, LeaseInv, NEW s \in Servers \ Running,
                      now > ended[s] + Delay + MaxAge, NEW t \in Targets
               PROVE  lease[s][t] < now
    BY DEF ForgottenInTime, Presence!ForgottenInTime
  <2>1. lease[s][t] \in Nat /\ ended[s] \in Nat /\ now \in Nat /\ Delay \in Nat
    BY TimeAssumption DEF TypeOK
  <2>2. lease[s][t] <= ended[s] + Delay + MaxAge
    BY DEF LeaseInv
  <2> QED BY <2>1, <2>2, MaxAgeNat
<1> QED BY <1>1, NetAlways, PTL

-----------------------------------------------------------------------------
(* Every step of Discovery is one of Presence, or none.                    *)
LEMMA Refines ==
  TypeOK /\ NetInv /\ [Next]_vars => [Presence!Next]_(Presence!presenceVars)
<1> SUFFICES ASSUME TypeOK, NetInv, [Next]_vars
             PROVE  Presence!Next \/ UNCHANGED <<now, Running, ended, lease>>
  BY DEF Presence!presenceVars
<1>1. ASSUME UNCHANGED <<now, main, id, ended, lease>>
      PROVE  UNCHANGED <<now, Running, ended, lease>>
  BY <1>1 DEF Running
<1>2. ASSUME UNCHANGED <<now, id, ended, lease>>, main # "off", main' # "off"
      PROVE  UNCHANGED <<now, Running, ended, lease>>
  BY <1>2 DEF Running
<1>3. ASSUME End, main # "off" PROVE Presence!Next
  <2>1. id \in Servers /\ Running = {id} /\ Running' = {}
    BY <1>3 DEF End, Running, TypeOK
  <2>2. Presence!Go(id)
    BY <1>3, <2>1 DEF End, Presence!Go, point
  <2> QED BY <2>1, <2>2 DEF Presence!Next
<1>4. CASE Start
  <2>1. CASE main' = "off"
    BY <1>4, <2>1 DEF Start, Running, network, point
  <2>2. CASE main' # "off"
    <3>1. Running = {} /\ Running' = {id'} /\ UNCHANGED <<now, ended, lease>>
      BY <1>4, <2>2 DEF Start, Running, network, point
    <3>2. id' \in Servers
      BY TypeStep DEF TypeOK
    <3>3. Presence!Come(id')
      BY <3>1 DEF Presence!Come
    <3> QED BY <3>2, <3>3 DEF Presence!Next
  <2> QED BY <2>1, <2>2
<1>5. CASE BindSsdp \/ BindHttp
  BY <1>2, <1>3, <1>5 DEF BindSsdp, BindHttp, network, point, history
<1>6. CASE AnnounceFirst \/ Announce \/ Respond \/ Stop
  BY <1>2, <1>6 DEF AnnounceFirst, Announce, Respond, Stop, point, history
<1>7. CASE SayByebye \/ Kill
  BY <1>3, <1>7 DEF SayByebye, Kill
<1>8. ASSUME NEW d \in net, Deliver(d) PROVE Presence!Next
  <2>1. UNCHANGED <<now, Running, ended>>
    BY <1>8 DEF Deliver, Running, process
  <2>2. d.server \in Servers /\ d.target \in Targets /\ ended[d.server] \in Nat
    BY DEF TypeOK, Messages
  <2>3. CASE Hears(d)
    <3>1. lease' = [lease EXCEPT ![d.server][d.target] = now + MaxAge]
      BY <1>8, <2>3 DEF Deliver, NetInv
    <3>2. d.server \in Running \/ now <= ended[d.server] + Delay
      <4>1. now <= d.sent + Delay /\ d.sent \in Nat /\ now \in Nat /\ Delay \in Nat
        BY TimeAssumption DEF NetInv, TypeOK, Messages
      <4>2. d.server \in Running \/ d.sent <= ended[d.server]
        BY DEF NetInv
      <4> QED BY <4>1, <4>2, <2>2
    <3>3. Presence!Renew(d.server, d.target)
      BY <2>1, <3>1, <3>2 DEF Presence!Renew
    <3> QED BY <2>2, <3>3 DEF Presence!Next
  <2>4. CASE ~Hears(d)
    <3>1. Presence!GiveUp(d.server, d.target)
      BY <1>8, <2>1, <2>4 DEF Deliver, Presence!GiveUp
    <3> QED BY <2>2, <3>1 DEF Presence!Next
  <2> QED BY <2>3, <2>4
<1>9. CASE Tick
  <2>1. Presence!Tick
    BY <1>9 DEF Tick, Presence!Tick, Running, process, network, point, history
  <2> QED BY <2>1 DEF Presence!Next
<1>10. ASSUME \/ \E d \in net : Lose(d)
              \/ \E datagram \in Searches : Ask(datagram)
              \/ DeliverSearch \/ LoseSearch \/ Close \/ UNCHANGED vars
       PROVE  UNCHANGED <<now, Running, ended, lease>>
  BY <1>1, <1>10 DEF Lose, Ask, DeliverSearch, LoseSearch, Close, vars, process, network,
     point, history
<1> QED
  BY <1>4, <1>5, <1>6, <1>7, <1>8, <1>9, <1>10 DEF Next, Process, Network

(* Discovery implements Presence.                                          *)
THEOREM DiscoveryImplementsPresence == Spec => ImplementsPresence
<1>1. Init => Presence!Init
  BY DEF Init, Presence!Init, Presence!NoLease, NoLease, Running
<1> QED
  BY <1>1, Refines, NetAlways, PTL DEF Spec, ImplementsPresence, Presence!Spec

-----------------------------------------------------------------------------
(* The announcer is never further behind than a sleep may overrun, and has *)
(* sent its last round no later than now.                                  *)
WakeInv ==
  main = "serve" => wake \in Nat /\ now <= wake + Late /\ wake <= now + Interval

(* What is known is known from the last round or its advertisement is on   *)
(* its way and that of the round before still good.                        *)
Heard(t) == lease[id][t] + Interval >= wake + MaxAge

Coming(t) ==
  /\ \E d \in net : d.server = id /\ d.target = t /\ Hears(d) /\ d.sent + Interval = wake
  /\ lease[id][t] + 2 * Interval + Late >= wake + MaxAge

KnownInv ==
  /\ main = "announce" => \A t \in met : lease[id][t] = now + MaxAge
  /\ main = "serve" /\ missed = 0 => \A t \in met : Heard(t) \/ Coming(t)

LEMMA WakeStep == TypeOK /\ WakeInv /\ [Next]_vars => WakeInv'
<1> SUFFICES ASSUME TypeOK, WakeInv, [Next]_vars, main' = "serve" PROVE WakeInv'
  BY DEF WakeInv
<1>0. now \in Nat /\ Interval \in Nat /\ Late \in Nat
  BY TimeAssumption DEF TypeOK
<1>1. CASE AnnounceFirst
  BY <1>0, <1>1 DEF AnnounceFirst, WakeInv
<1>2. CASE Announce
  BY <1>0, <1>2 DEF Announce, WakeInv
<1>3. CASE Tick
  <2>1. main = "serve" /\ wake' = wake /\ now' = now + 1
    BY <1>3 DEF Tick, process
  <2>2. wake \in Nat /\ now <= wake + Late /\ wake <= now + Interval
    BY <2>1 DEF WakeInv
  <2>3. wake # None
    BY <2>2, NoneAssumption
  <2>4. now < wake + Late
    BY <1>3, <2>3 DEF Tick, Prompt
  <2> QED BY <1>0, <2>1, <2>2, <2>4 DEF WakeInv
<1>4. CASE UNCHANGED <<now, main, wake>>
  BY <1>4 DEF WakeInv
<1>5. ASSUME \/ \E d \in net : Deliver(d) \/ Lose(d)
             \/ \E datagram \in Searches : Ask(datagram)
      PROVE  UNCHANGED <<now, main, wake>>
  BY <1>5 DEF Deliver, Lose, Ask, process
<1>6. ASSUME Respond \/ DeliverSearch \/ LoseSearch \/ Close \/ UNCHANGED vars
      PROVE  UNCHANGED <<now, main, wake>>
  BY <1>6 DEF Respond, DeliverSearch, LoseSearch, Close, vars, process
<1>7. ~(Start \/ BindSsdp \/ BindHttp \/ Stop \/ SayByebye \/ Kill)
  BY DEF Start, BindSsdp, BindHttp, Stop, SayByebye, Kill, End
<1> QED
  BY <1>1, <1>2, <1>3, <1>4, <1>5, <1>6, <1>7 DEF Next, Process, Network

(* What is known stays known from one sleep of the announcer to the next.  *)
LEMMA KnownStep ==
  ASSUME TypeOK, NetInv, WakeInv, KnownInv, [Next]_vars, Delay < Interval
  PROVE  KnownInv'
<1> now \in Nat /\ Interval \in Nat /\ Late \in Nat /\ Delay \in Nat /\ MaxAge \in Nat
  BY TimeAssumption, MaxAgeNat DEF TypeOK
<1>0. ASSUME NEW t \in met PROVE t \in Targets /\ lease[id][t] \in Nat
  BY DEF TypeOK
<1>1. CASE main' \notin {"announce", "serve"}
  BY <1>1 DEF KnownInv
<1>2. CASE BindHttp /\ main' = "announce"
  BY <1>2 DEF BindHttp, End, KnownInv
<1>3. CASE AnnounceFirst
  <2>1. \A t \in met' : Heard(t)'
    BY <1>0, <1>3 DEF AnnounceFirst, KnownInv, Heard, point, history
  <2> QED BY <1>3, <2>1 DEF AnnounceFirst, KnownInv
<1>4. CASE Announce
  <2> SUFFICES ASSUME missed = 0, NEW t \in met PROVE Coming(t)'
    BY <1>4 DEF Announce, KnownInv, history
  <2>1. Heard(t) \/ Coming(t)
    BY <1>4 DEF Announce, KnownInv
  <2>2. wake \in Nat /\ wake <= now /\ now <= wake + Late /\ wake' = now + Interval
    BY <1>4 DEF Announce, WakeInv
  <2>3. ~Coming(t)
    <3> SUFFICES ASSUME NEW d \in net, d.sent + Interval = wake PROVE FALSE
      BY DEF Coming
    <3>1. d.sent \in Nat /\ now <= d.sent + Delay
      BY DEF NetInv, TypeOK, Messages
    <3> QED BY <2>2, <3>1
  <2>4. lease[id][t] + 2 * Interval + Late >= wake' + MaxAge
    BY <1>0, <2>1, <2>2, <2>3 DEF Heard
  <2>5. Advertisement("alive", t, 0) \in net'
    BY <1>0, <1>4, AdsAll DEF Announce
  <2>6. /\ Advertisement("alive", t, 0).server = id
        /\ Advertisement("alive", t, 0).target = t
        /\ Hears(Advertisement("alive", t, 0))
        /\ Advertisement("alive", t, 0).sent = now
    BY DEF Advertisement, Hears
  <2> QED BY <1>4, <2>2, <2>4, <2>5, <2>6 DEF Announce, Coming, point
<1>5. ASSUME NEW d \in net, Deliver(d) PROVE KnownInv'
  <2>1. UNCHANGED <<now, main, id, wake, missed>> /\ net' = net \ {d}
    BY <1>5 DEF Deliver, process
  <2>2. d.server \in Servers /\ d.target \in Targets /\ id \in Servers
    BY DEF TypeOK, Messages
  <2>3. lease' = [lease EXCEPT ![d.server][d.target] = IF Hears(d) THEN now + MaxAge ELSE 0]
    BY <1>5 DEF Deliver, NetInv
  <2>4. ASSUME NEW t \in met'
        PROVE  \/ lease'[id][t] = now + MaxAge
               \/ /\ t \in met /\ lease'[id][t] = lease[id][t]
                  /\ d.server # id \/ d.target # t
    <3>1. CASE d.server = id /\ d.target = t
      <4>1. Hears(d)
        BY <1>5, <2>4, <3>1 DEF Deliver
      <4> QED BY <2>2, <2>3, <3>1, <4>1 DEF TypeOK
    <3>2. CASE ~(d.server = id /\ d.target = t)
      <4>1. t \in met
        BY <1>5, <2>4, <3>2 DEF Deliver
      <4>2. lease'[id][t] = lease[id][t]
        BY <1>0, <2>2, <2>3, <3>2, <4>1 DEF TypeOK
      <4> QED BY <3>2, <4>1, <4>2
    <3> QED BY <3>1, <3>2
  <2>5. ASSUME main = "announce", NEW t \in met' PROVE lease'[id][t] = now + MaxAge
    BY <2>4, <2>5 DEF KnownInv
  <2>6. ASSUME main = "serve", missed = 0, NEW t \in met' PROVE Heard(t)' \/ Coming(t)'
    <3>1. CASE lease'[id][t] = now + MaxAge
      BY <2>1, <2>6, <3>1 DEF WakeInv, Heard
    <3>2. CASE /\ t \in met /\ lease'[id][t] = lease[id][t]
               /\ d.server # id \/ d.target # t
      <4>1. Heard(t) \/ Coming(t)
        BY <2>6, <3>2 DEF KnownInv
      <4>2. CASE Heard(t)
        BY <2>1, <3>2, <4>2 DEF Heard
      <4>3. CASE Coming(t)
        BY <2>1, <3>2, <4>3 DEF Coming
      <4> QED BY <4>1, <4>2, <4>3
    <3> QED BY <2>4, <3>1, <3>2
  <2> QED BY <2>1, <2>5, <2>6 DEF KnownInv
<1>6. ASSUME UNCHANGED <<now, main, id, wake, met, lease>>, missed' = missed,
             \A d \in net : d.server = id => d \in net'
      PROVE  KnownInv'
  BY <1>6 DEF KnownInv, Heard, Coming
<1>7. ASSUME NEW d \in net, Lose(d) PROVE KnownInv'
  <2>1. CASE d.server = id
    <3>1. missed' # 0
      BY <1>7, <2>1 DEF Lose, TypeOK
    <3> QED BY <1>7, <3>1 DEF Lose, KnownInv, process, point
  <2>2. CASE d.server # id
    BY <1>6, <1>7, <2>2 DEF Lose, process, point
  <2> QED BY <2>1, <2>2
<1>8. CASE Tick
  <2>1. main # "announce" /\ UNCHANGED <<main, id, wake, met, lease, missed, net>>
    BY <1>8 DEF Tick, Prompt, process, network, point, history
  <2> QED BY <2>1 DEF KnownInv, Heard, Coming
<1>9. CASE Respond \/ DeliverSearch \/ LoseSearch \/ Close \/ UNCHANGED vars
  BY <1>6, <1>9 DEF Respond, DeliverSearch, LoseSearch, Close, vars, process, network, point,
     history
<1>10. ASSUME NEW datagram \in Searches, Ask(datagram) PROVE KnownInv'
  BY <1>6, <1>10 DEF Ask, process
<1>11. CASE Start \/ BindSsdp \/ Stop \/ SayByebye \/ Kill
  BY <1>1, <1>11 DEF Start, BindSsdp, Stop, SayByebye, Kill, End
<1>12. CASE BindHttp
  BY <1>1, <1>2, <1>12 DEF BindHttp, End
<1> QED
  BY <1>3, <1>4, <1>5, <1>7, <1>8, <1>9, <1>10, <1>11, <1>12 DEF Next, Process, Network

(* If max-age covers a sleep, its overrun and a datagram's way, a server   *)
(* that serves is never given up by who has heard of it, unless a datagram *)
(* of it is lost.                                                          *)
THEOREM AlwaysRemembered ==
  ASSUME Delay < Interval, Interval + Late + Delay <= MaxAge
  PROVE  Spec => []Remembered
<1>1. Init => WakeInv /\ KnownInv
  BY DEF Init, WakeInv, KnownInv
<1>2. TypeOK /\ NetInv /\ WakeInv /\ KnownInv /\ [Next]_vars => KnownInv'
  BY KnownStep
<1>3. TypeOK /\ NetInv /\ WakeInv /\ KnownInv => Remembered
  <2> SUFFICES ASSUME TypeOK, NetInv, WakeInv, KnownInv, main = "serve", missed = 0,
                      NEW t \in met
               PROVE  now <= lease[id][t]
    BY DEF Remembered, Known
  <2>1. /\ now \in Nat /\ Interval \in Nat /\ Late \in Nat /\ Delay \in Nat /\ MaxAge \in Nat
        /\ lease[id][t] \in Nat
    BY TimeAssumption, MaxAgeNat DEF TypeOK
  <2>2. wake \in Nat /\ now <= wake + Late
    BY DEF WakeInv
  <2>3. CASE Heard(t)
    BY <2>1, <2>2, <2>3 DEF Heard
  <2>4. CASE Coming(t)
    <3>1. PICK d \in net : d.sent + Interval = wake
      BY <2>4 DEF Coming
    <3>2. d.sent \in Nat /\ now <= d.sent + Delay
      BY DEF NetInv, TypeOK, Messages
    <3> QED BY <2>1, <2>2, <2>4, <3>1, <3>2 DEF Coming
  <2> QED BY <2>3, <2>4 DEF KnownInv
<1> QED BY <1>1, <1>2, <1>3, WakeStep, NetAlways, PTL DEF Spec

-----------------------------------------------------------------------------
(* After a loss what is known is a round behind, or two and a datagram of  *)
(* the last one is on its way.                                             *)
Behind(t) == lease[id][t] + 2 * Interval + Late >= wake + MaxAge

Returning(t) ==
  /\ \E d \in net : d.server = id /\ d.target = t /\ Hears(d) /\ d.sent + Interval = wake
  /\ lease[id][t] + 3 * Interval + 2 * Late >= wake + MaxAge

BackInv == main = "serve" /\ missed = 1 => \A t \in met : Behind(t) \/ Returning(t)

LEMMA BackStep ==
  ASSUME TypeOK, NetInv, WakeInv, KnownInv, BackInv, [Next]_vars, Delay < Interval
  PROVE  BackInv'
<1> now \in Nat /\ Interval \in Nat /\ Late \in Nat /\ Delay \in Nat /\ MaxAge \in Nat
  BY TimeAssumption, MaxAgeNat DEF TypeOK
<1>0. ASSUME NEW t \in met PROVE t \in Targets /\ lease[id][t] \in Nat
  BY DEF TypeOK
<1>1. CASE main' # "serve"
  BY <1>1 DEF BackInv
<1>2. CASE AnnounceFirst
  <2>1. \A t \in met' : Behind(t)'
    BY <1>0, <1>2 DEF AnnounceFirst, KnownInv, Behind, point, history
  <2> QED BY <2>1 DEF BackInv
<1>3. CASE Announce
  <2> SUFFICES ASSUME missed = 1, NEW t \in met PROVE Returning(t)'
    BY <1>3 DEF Announce, BackInv, history
  <2>1. Behind(t) \/ Returning(t)
    BY <1>3 DEF Announce, BackInv
  <2>2. wake \in Nat /\ wake <= now /\ now <= wake + Late /\ wake' = now + Interval
    BY <1>3 DEF Announce, WakeInv
  <2>3. ~Returning(t)
    <3> SUFFICES ASSUME NEW d \in net, d.sent + Interval = wake PROVE FALSE
      BY DEF Returning
    <3>1. d.sent \in Nat /\ now <= d.sent + Delay
      BY DEF NetInv, TypeOK, Messages
    <3> QED BY <2>2, <3>1
  <2>4. lease[id][t] + 3 * Interval + 2 * Late >= wake' + MaxAge
    BY <1>0, <2>1, <2>2, <2>3 DEF Behind
  <2>5. Advertisement("alive", t, 0) \in net'
    BY <1>0, <1>3, AdsAll DEF Announce
  <2>6. /\ Advertisement("alive", t, 0).server = id
        /\ Advertisement("alive", t, 0).target = t
        /\ Hears(Advertisement("alive", t, 0))
        /\ Advertisement("alive", t, 0).sent = now
    BY DEF Advertisement, Hears
  <2> QED BY <1>3, <2>2, <2>4, <2>5, <2>6 DEF Announce, Returning, point
<1>4. ASSUME NEW d \in net, Deliver(d), main = "serve", missed = 1, NEW t \in met'
      PROVE  Behind(t)' \/ Returning(t)'
  <2>1. UNCHANGED <<now, main, id, wake, missed>> /\ net' = net \ {d}
    BY <1>4 DEF Deliver, process
  <2>2. d.server \in Servers /\ d.target \in Targets /\ id \in Servers
    BY DEF TypeOK, Messages
  <2>3. lease' = [lease EXCEPT ![d.server][d.target] = IF Hears(d) THEN now + MaxAge ELSE 0]
    BY <1>4 DEF Deliver, NetInv
  <2>4. CASE d.server = id /\ d.target = t
    <3>1. Hears(d)
      BY <1>4, <2>4 DEF Deliver
    <3>2. lease'[id][t] = now + MaxAge
      BY <2>2, <2>3, <2>4, <3>1 DEF TypeOK
    <3> QED BY <1>4, <2>1, <3>2 DEF WakeInv, Behind
  <2>5. CASE ~(d.server = id /\ d.target = t)
    <3>1. t \in met
      BY <1>4, <2>5 DEF Deliver
    <3>2. lease'[id][t] = lease[id][t]
      BY <1>0, <2>2, <2>3, <2>5, <3>1 DEF TypeOK
    <3>3. Behind(t) \/ Returning(t)
      BY <1>4, <3>1 DEF BackInv
    <3>4. CASE Behind(t)
      BY <2>1, <3>2, <3>4 DEF Behind
    <3>5. CASE Returning(t)
      BY <2>1, <2>5, <3>2, <3>5 DEF Returning
    <3> QED BY <3>3, <3>4, <3>5
  <2> QED BY <2>4, <2>5
<1>5. ASSUME UNCHANGED <<now, main, id, wake, met, lease>>, missed' = missed,
             \A d \in net : d.server = id => d \in net'
      PROVE  BackInv'
  BY <1>5 DEF BackInv, Behind, Returning
<1>6. ASSUME NEW d \in net, Lose(d) PROVE BackInv'
  <2>1. CASE d.server = id
    <3> SUFFICES ASSUME main = "serve", missed = 0, NEW t \in met PROVE Behind(t)'
      BY <1>6, <2>1 DEF Lose, BackInv, TypeOK, process, point
    <3>1. wake \in Nat /\ (Heard(t) \/ Coming(t))
      BY DEF WakeInv, KnownInv
    <3>2. Behind(t)
      BY <1>0, <3>1 DEF Heard, Coming, Behind
    <3> QED BY <1>6, <3>2 DEF Lose, Behind, process, point
  <2>2. CASE d.server # id
    BY <1>5, <1>6, <2>2 DEF Lose, process, point
  <2> QED BY <2>1, <2>2
<1>7. CASE Tick
  <2>1. UNCHANGED <<main, id, wake, met, lease, missed, net>>
    BY <1>7 DEF Tick, process, network, point, history
  <2> QED BY <2>1 DEF BackInv, Behind, Returning
<1>8. CASE Respond \/ DeliverSearch \/ LoseSearch \/ Close \/ UNCHANGED vars
  BY <1>5, <1>8 DEF Respond, DeliverSearch, LoseSearch, Close, vars, process, network, point,
     history
<1>9. ASSUME NEW datagram \in Searches, Ask(datagram) PROVE BackInv'
  BY <1>5, <1>9 DEF Ask, process
<1>10. CASE Start \/ BindSsdp \/ BindHttp \/ Stop \/ SayByebye \/ Kill
  BY <1>1, <1>10 DEF Start, BindSsdp, BindHttp, Stop, SayByebye, Kill, End
<1>11. ASSUME NEW d \in net, Deliver(d) PROVE BackInv'
  BY <1>4, <1>11 DEF Deliver, BackInv, process
<1> QED
  BY <1>2, <1>3, <1>6, <1>7, <1>8, <1>9, <1>10, <1>11 DEF Next, Process, Network

(* After one lost datagram a server that serves is missing for no longer   *)
(* than two sleeps overrun, a datagram is on its way and max-age falls     *)
(* short of two intervals (config.rs, max_age; ssdp/mod.rs,                *)
(* announce_alive_periodically).                                           *)
THEOREM BackSoon == ASSUME Delay < Interval PROVE Spec => []BackAfterOneLoss
<1>1. Init => WakeInv /\ KnownInv /\ BackInv
  BY DEF Init, WakeInv, KnownInv, BackInv
<1>2. TypeOK /\ NetInv /\ WakeInv /\ KnownInv /\ [Next]_vars => KnownInv'
  BY KnownStep
<1>3. TypeOK /\ NetInv /\ WakeInv /\ KnownInv /\ BackInv /\ [Next]_vars => BackInv'
  BY BackStep
<1>4. TypeOK /\ NetInv /\ WakeInv /\ KnownInv /\ BackInv => BackAfterOneLoss
  <2> SUFFICES ASSUME TypeOK, NetInv, WakeInv, KnownInv, BackInv, main = "serve",
                      missed <= 1, NEW t \in met
               PROVE  now <= lease[id][t] + (2 * Interval - MaxAge) + 2 * Late + Delay
    BY DEF BackAfterOneLoss
  <2>1. /\ now \in Nat /\ Interval \in Nat /\ Late \in Nat /\ Delay \in Nat /\ MaxAge \in Nat
        /\ lease[id][t] \in Nat /\ missed \in Nat
    BY TimeAssumption, MaxAgeNat DEF TypeOK
  <2>2. wake \in Nat /\ now <= wake + Late
    BY DEF WakeInv
  <2>3. (Heard(t) \/ Coming(t)) \/ (Behind(t) \/ Returning(t))
    BY <2>1 DEF KnownInv, BackInv
  <2>4. CASE Heard(t)
    BY <2>1, <2>2, <2>4 DEF Heard
  <2>5. CASE Coming(t) \/ Behind(t)
    BY <2>1, <2>2, <2>5 DEF Coming, Behind
  <2>6. CASE Returning(t)
    <3>1. PICK d \in net : d.sent + Interval = wake
      BY <2>6 DEF Returning
    <3>2. d.sent \in Nat /\ now <= d.sent + Delay
      BY DEF NetInv, TypeOK, Messages
    <3> QED BY <2>1, <2>2, <2>6, <3>1, <3>2 DEF Returning
  <2> QED BY <2>3, <2>4, <2>5, <2>6
<1> QED BY <1>1, <1>2, <1>3, <1>4, WakeStep, NetAlways, PTL DEF Spec

-----------------------------------------------------------------------------
(* Once it was stopped with nothing under way, byebyes are all there is on *)
(* the way of it, one for each target that is still believed.              *)
CleanInv ==
  clean =>
    /\ main \in {"byebye", "off"}
    /\ main = "byebye" => net = {}
    /\ main = "off" =>
         /\ \A d \in net : d.kind = "byebye"
         /\ \A t \in Targets :
              lease[id][t] = 0 \/ \E d \in net : d.server = id /\ d.target = t

LEMMA CleanStep == TypeOK /\ CleanInv /\ [Next]_vars => CleanInv'
<1> SUFFICES ASSUME TypeOK, CleanInv, [Next]_vars, clean' PROVE CleanInv'
  BY DEF CleanInv
<1>1. CASE Stop
  BY <1>1 DEF Stop, CleanInv
<1>2. CASE SayByebye
  <2>1. net' = Ads("byebye", ALL, 0) /\ main' = "off" /\ id' = id
    BY <1>2 DEF SayByebye, End, CleanInv
  <2>2. \A d \in net' : d.kind = "byebye"
    BY <2>1 DEF Ads, Advertisement
  <2>3. ASSUME NEW t \in Targets
        PROVE  \E d \in net' : d.server = id /\ d.target = t
    BY <2>1, <2>3, AdsAll DEF Advertisement
  <2> QED BY <2>1, <2>2, <2>3 DEF CleanInv
<1>3. ASSUME NEW d \in net, Deliver(d) PROVE CleanInv'
  <2>1. main = "off" /\ UNCHANGED <<main, id, clean>> /\ net' = net \ {d} /\ d.kind = "byebye"
    BY <1>3 DEF Deliver, process, CleanInv
  <2>2. lease' = [lease EXCEPT ![d.server][d.target] = 0]
    BY <1>3, <2>1 DEF Deliver, Hears
  <2>3. ASSUME NEW t \in Targets
        PROVE  lease'[id][t] = 0 \/ \E e \in net' : e.server = id /\ e.target = t
    <3>1. id \in Servers /\ lease \in [Servers -> [Targets -> Nat]]
          /\ d.server \in Servers /\ d.target \in Targets
      BY DEF TypeOK, Messages
    <3>2. CASE d.server = id /\ d.target = t
      BY <2>2, <3>1, <3>2
    <3>3. CASE ~(d.server = id /\ d.target = t)
      <4>1. lease'[id][t] = lease[id][t]
        BY <2>2, <3>1, <3>3
      <4> QED BY <1>3, <2>1, <3>3, <4>1 DEF CleanInv
    <3> QED BY <3>2, <3>3
  <2> QED BY <2>1, <2>3 DEF CleanInv
<1>4. CASE UNCHANGED <<main, id, net, lease, clean>>
  BY <1>4 DEF CleanInv
<1>5. ASSUME DeliverSearch \/ LoseSearch \/ Close \/ Tick \/ UNCHANGED vars
      PROVE  UNCHANGED <<main, id, net, lease, clean>>
  BY <1>5 DEF DeliverSearch, LoseSearch, Close, Tick, vars, process, network, point, history
<1>6. ASSUME NEW datagram \in Searches, Ask(datagram)
      PROVE  UNCHANGED <<main, id, net, lease, clean>>
  BY <1>6 DEF Ask, process
<1>7. ~(Start \/ Kill \/ \E d \in net : Lose(d))
  BY DEF Start, Kill, Lose
<1>8. ~(BindSsdp \/ BindHttp \/ AnnounceFirst \/ Announce \/ Respond)
  BY DEF BindSsdp, BindHttp, End, AnnounceFirst, Announce, Respond, CleanInv, history
<1> QED
  BY <1>1, <1>2, <1>3, <1>4, <1>5, <1>6, <1>7, <1>8 DEF Next, Process, Network

(* A server stopped with nothing under way is forgotten by whoever its     *)
(* byebyes have reached: no task is left to bring it back (main.rs, the    *)
(* tasks aborted before announce_byebye).                                  *)
THEOREM GoneForGood == Spec => []GoneAfterByebye
<1>1. Init => CleanInv
  BY DEF Init, CleanInv
<1>2. CleanInv => GoneAfterByebye
  BY DEF CleanInv, GoneAfterByebye
<1> QED BY <1>1, <1>2, TypeInit, TypeStep, CleanStep, PTL DEF Spec

(* Nothing is advertised before the HTTP server is bound, nor by a process *)
(* that ends before (main.rs, main).                                       *)
THEOREM BoundFirst == Spec => AnnouncesOnlyBound
<1> SUFFICES ASSUME [Next]_vars, ~(net' \subseteq net) PROVE main \in {"announce", "serve", "byebye"}
  BY PTL DEF Spec, AnnouncesOnlyBound
<1>1. ASSUME Kill, main \notin {"announce", "serve", "byebye"} PROVE FALSE
  <2>1. Announcing = {{}} /\ Answering = {{}} /\ Leaving = {{}}
    BY <1>1 DEF Announcing, Answering, Leaving
  <2>2. \A sent \in Interrupted : sent = {}
    BY <2>1 DEF Interrupted
  <2> QED BY <1>1, <2>2 DEF Kill
<1>2. ASSUME \/ \E d \in net : Deliver(d) \/ Lose(d)
             \/ \E datagram \in Searches : Ask(datagram)
      PROVE  FALSE
  BY <1>2 DEF Deliver, Lose, Ask
<1>3. ASSUME DeliverSearch \/ LoseSearch \/ Close \/ Tick \/ UNCHANGED vars PROVE FALSE
  BY <1>3 DEF DeliverSearch, LoseSearch, Close, Tick, vars, network
<1>4. ASSUME Start \/ BindSsdp \/ BindHttp PROVE FALSE
  BY <1>4 DEF Start, BindSsdp, BindHttp, network
<1>5. ASSUME AnnounceFirst \/ Announce \/ Respond \/ Stop \/ SayByebye
      PROVE  main \in {"announce", "serve", "byebye"}
  BY <1>5 DEF AnnounceFirst, Announce, Respond, Stop, SayByebye
<1> QED BY <1>1, <1>2, <1>3, <1>4, <1>5 DEF Next, Process, Network
-----------------------------------------------------------------------------
(* What a control point sends to search with can be parsed.                *)
SearchesFit ==
  \A datagram \in Searches :
    datagram.msearch => datagram.utf8 /\ datagram.len \in 0 .. MAX_DATAGRAM_LEN

(* No port is used for two searches, ...                                   *)
PortsInv ==
  /\ \A d \in net : d.port <= ports
  /\ asking # None => asking.port <= ports
  /\ \A i \in DOMAIN inbox : inbox[i].port <= ports
  /\ search # None =>
       /\ search.port = ports
       /\ asking # None /\ asking.port = ports => asking = search
       /\ \A i \in DOMAIN inbox : inbox[i].port = ports => inbox[i] = search

(* ... so what comes to the port of a search answers that one.             *)
FoundInv ==
  search # None =>
    /\ found \subseteq Wanted(search.datagram)
    /\ \A d \in net : d.kind = "response" /\ d.port = search.port
                        => d.target \in Wanted(search.datagram)

(* The search is on its way, or waits to be answered.                      *)
Unanswered == asking = search \/ \E i \in DOMAIN inbox : inbox[i] = search

(* The answer for this target is on its way, sent in time.                 *)
Answer(t) ==
  \E d \in net : /\ d.kind = "response" /\ d.port = search.port /\ d.target = t
                 /\ d.sent <= search.sent + Delay

(* While nothing is lost, every target searched for is still to come, and  *)
(* comes in time.                                                          *)
SteadyInv ==
  steady =>
    /\ main = "serve" /\ search # None
    /\ search.sent <= now
    /\ Unanswered => now <= search.sent + Delay
    /\ Unanswered \/ \A t \in Wanted(search.datagram) : t \in found \/ Answer(t)

(* What is answered is what is searched for.                               *)
LEMMA AnswersWanted ==
  ASSUME SearchesFit, NEW datagram \in Searches
  PROVE  Range(Answers(datagram)) = Wanted(datagram)
<1> DEFINE st == Head(datagram.st)
<1>0. Range(<<>>) = {}
  BY DEF Range
<1>1. CASE ~datagram.msearch \/ datagram.st = <<>>
  <2>1. Answers(datagram) = <<>>
    BY <1>1 DEF Answers, parse_search_request
  <2>2. Wanted(datagram) = {}
    BY <1>1 DEF Wanted
  <2> QED BY <2>1, <2>2, <1>0
<1>2. CASE datagram.msearch /\ datagram.st # <<>>
  <2>1. parse_search_request(datagram) = st
    <3>1. datagram.utf8 /\ datagram.len \in 0 .. MAX_DATAGRAM_LEN
      BY <1>2, Zenon DEF SearchesFit
    <3>2. ~(datagram.len > MAX_DATAGRAM_LEN)
      BY <3>1, TimeAssumption
    <3> QED BY <1>2, <3>1, <3>2, Zenon DEF parse_search_request
  <2>2. CASE st = "ssdp:all"
    <3>1. Answers(datagram) = ALL
      BY <2>1, <2>2, NoneAssumption DEF Answers, matching
    <3>2. Range(ALL) = Targets
      <4>1. \A i \in DOMAIN ALL : ALL[i] \in Targets
        BY AllAssumption, ElementOfSeq
      <4> QED BY <4>1, AllAssumption DEF Range
    <3>3. Wanted(datagram) = Targets
      BY <1>2, <2>2 DEF Wanted
    <3> QED BY <3>1, <3>2, <3>3
  <2>3. CASE st \in Targets /\ st # "ssdp:all"
    <3>1. Answers(datagram) = <<st>>
      BY <2>1, <2>3, NoneAssumption DEF Answers, matching
    <3>2. Range(<<st>>) = {st}
      BY DEF Range
    <3>3. Wanted(datagram) = {st}
      BY <1>2, <2>3 DEF Wanted
    <3> QED BY <3>1, <3>2, <3>3
  <2>4. CASE st \notin Targets /\ st # "ssdp:all"
    <3>1. Answers(datagram) = <<>>
      BY <2>1, <2>4 DEF Answers, matching
    <3>2. Wanted(datagram) = {}
      BY <2>4 DEF Wanted
    <3> QED BY <3>1, <3>2, <1>0
  <2> QED BY <2>2, <2>3, <2>4
<1> QED BY <1>1, <1>2

(* What is sent of an answer is for a target searched for, and the whole   *)
(* answer for each of them.                                                *)
LEMMA AnswerSent ==
  ASSUME SearchesFit, NEW a \in Asked, NEW targets,
         Range(targets) \subseteq Range(Answers(a.datagram)),
         NEW d \in Ads("response", targets, a.port)
  PROVE  d.port = a.port /\ d.sent = now /\ d.target \in Wanted(a.datagram)
<1>1. PICK t \in Range(targets) : d = Advertisement("response", t, a.port)
  BY DEF Ads
<1>2. t \in Wanted(a.datagram)
  BY AnswersWanted DEF Asked
<1> QED BY <1>1, <1>2 DEF Advertisement

LEMMA AnswerAll ==
  ASSUME SearchesFit, NEW a \in Asked, NEW t \in Wanted(a.datagram)
  PROVE  \E d \in Ads("response", Answers(a.datagram), a.port) :
           d.kind = "response" /\ d.port = a.port /\ d.target = t /\ d.sent = now
<1>1. t \in Range(Answers(a.datagram))
  BY AnswersWanted DEF Asked
<1>2. Advertisement("response", t, a.port) \in Ads("response", Answers(a.datagram), a.port)
  BY <1>1 DEF Ads
<1> QED BY <1>2 DEF Advertisement

(* Whatever is under way is an announcement, or part of the answer to the  *)
(* search at hand.                                                         *)
Sends(part) ==
  \A d \in part :
    \/ d.kind # "response" /\ d.port = 0
    \/ inbox # <<>> /\ d.port = Head(inbox).port /\ d.target \in Wanted(Head(inbox).datagram)

LEMMA SendsAds ==
  ASSUME NEW kind \in {"alive", "byebye"}, NEW targets PROVE Sends(Ads(kind, targets, 0))
  BY DEF Ads, Advertisement, Sends

LEMMA SendsAnswer ==
  ASSUME SearchesFit, TypeOK, inbox # <<>>, NEW targets,
         Range(targets) \subseteq Range(Answers(Head(inbox).datagram))
  PROVE  Sends(Ads("response", targets, Head(inbox).port))
<1>1. Head(inbox) \in Asked
  BY HeadTailProperties DEF TypeOK
<1> QED BY <1>1, AnswerSent DEF Sends

LEMMA SendsInterrupted ==
  ASSUME SearchesFit, TypeOK, NEW sent \in Interrupted PROVE Sends(sent)
<1>0. Sends({})
  BY DEF Sends
<1>1. PICK a \in Announcing, b \in Answering, c \in Leaving : sent = a \cup b \cup c
  BY DEF Interrupted
<1>2. Sends(a)
  BY <1>0, SendsAds DEF Announcing, Begun
<1>3. Sends(b)
  <2>1. CASE main = "serve" /\ inbox # <<>>
    <3>0. DEFINE answers == Answers(Head(inbox).datagram)
    <3>1. PICK n \in 0 .. Len(answers) :
            b = Ads("response", SubSeq(answers, 1, n), Head(inbox).port)
      BY <2>1 DEF Answering, Begun
    <3>2. answers \in Seq(Targets)
      BY AnswersType
    <3>3. Range(SubSeq(answers, 1, n)) \subseteq Range(answers)
      <4> HIDE DEF answers
      <4>1. Len(answers) \in Nat /\ DOMAIN answers = 1 .. Len(answers)
        BY <3>2, LenProperties
      <4>2. \A i \in 1 .. n : SubSeq(answers, 1, n)[i] = answers[i]
        BY <3>2, <4>1, SubSeqProperties
      <4>3. DOMAIN SubSeq(answers, 1, n) = 1 .. n
        BY <3>2, <4>1, SubSeqProperties
      <4> QED BY <4>1, <4>2, <4>3 DEF Range
    <3> QED BY <2>1, <3>1, <3>3, SendsAnswer
  <2>2. CASE ~(main = "serve" /\ inbox # <<>>)
    BY <2>2, <1>0 DEF Answering
  <2> QED BY <2>1, <2>2
<1>4. Sends(c)
  BY <1>0, SendsAds DEF Leaving, Begun
<1> QED BY <1>1, <1>2, <1>3, <1>4 DEF Sends

LEMMA PortsInit == Init => PortsInv /\ FoundInv /\ SteadyInv
  BY DEF Init, PortsInv, FoundInv, SteadyInv

(* A port stays that of one search, whatever the process sends ...         *)
LEMMA PortsSends ==
  ASSUME TypeOK, PortsInv, FoundInv, NEW part, Sends(part), net' = net \cup part,
         UNCHANGED <<ports, asking, search, found>>, inbox' \in {inbox, Tail(inbox), <<>>}
  PROVE  PortsInv' /\ FoundInv'
<1>1. inbox \in Seq(Asked) /\ ports \in Nat
  BY TimeAssumption DEF TypeOK
<1>2. ASSUME NEW i \in DOMAIN inbox' PROVE \E j \in DOMAIN inbox : inbox'[i] = inbox[j]
  <2>1. CASE inbox' = Tail(inbox) /\ inbox # <<>>
    <3>1. Len(inbox) \in Nat /\ Len(inbox') = Len(inbox) - 1 /\ inbox' \in Seq(Asked)
      BY <1>1, <2>1, HeadTailProperties, LenProperties
    <3>2. i \in 1 .. Len(inbox) - 1 /\ inbox'[i] = inbox[i + 1]
      BY <1>1, <2>1, <3>1, HeadTailProperties, LenProperties
    <3>3. i + 1 \in DOMAIN inbox
      BY <1>1, <3>1, <3>2, LenProperties
    <3> QED BY <3>2, <3>3
  <2>2. CASE inbox' = inbox
    BY <2>2
  <2>3. CASE inbox' = <<>>
    BY <2>3
  <2>4. CASE inbox = <<>> /\ inbox' = Tail(inbox)
    BY <2>4
  <2> QED BY <2>1, <2>2, <2>3, <2>4
<1>3. ASSUME inbox # <<>> PROVE 1 \in DOMAIN inbox /\ Head(inbox) = inbox[1]
  BY <1>1, <1>3, HeadTailProperties, LenProperties
<1>4. ASSUME NEW d \in part
      PROVE  /\ d.port <= ports
             /\ search # None /\ d.kind = "response" /\ d.port = search.port
                  => d.target \in Wanted(search.datagram)
  <2>1. CASE d.kind # "response" /\ d.port = 0
    BY <1>1, <2>1
  <2>2. CASE inbox # <<>> /\ d.port = Head(inbox).port /\ d.target \in Wanted(Head(inbox).datagram)
    BY <1>3, <2>2 DEF PortsInv
  <2> QED BY <2>1, <2>2 DEF Sends
<1>5. PortsInv'
  BY <1>2, <1>4 DEF PortsInv
<1>6. FoundInv'
  BY <1>4 DEF FoundInv
<1> QED BY <1>5, <1>6

LEMMA PortsStep ==
  ASSUME SearchesFit, TypeOK, PortsInv, FoundInv, [Next]_vars
  PROVE  PortsInv' /\ FoundInv'
<1>0. inbox \in Seq(Asked) /\ ports \in Nat /\ Sends({})
  BY TimeAssumption DEF TypeOK, Sends
<1>1. ASSUME End, UNCHANGED net PROVE PortsInv' /\ FoundInv'
  BY <1>0, <1>1, PortsSends DEF End, point
<1>2. ASSUME UNCHANGED <<inbox, network, point>> PROVE PortsInv' /\ FoundInv'
  BY <1>2 DEF PortsInv, FoundInv, network, point
<1>3. CASE Start \/ BindSsdp \/ BindHttp
  BY <1>1, <1>2, <1>3 DEF Start, BindSsdp, BindHttp, network, point
<1>4. CASE AnnounceFirst \/ Announce
  BY <1>4, SendsAds, PortsSends DEF AnnounceFirst, Announce, point
<1>5. CASE Respond
  <2>1. Sends(Ads("response", Answers(Head(inbox).datagram), Head(inbox).port))
    BY <1>5, SendsAnswer DEF Respond
  <2> QED BY <1>5, <2>1, PortsSends DEF Respond, point
<1>6. CASE Stop
  BY <1>6, SendsInterrupted, PortsSends DEF Stop, point
<1>7. CASE SayByebye
  BY <1>7, SendsAds, PortsSends DEF SayByebye, End, point
<1>8. CASE Kill
  BY <1>8, SendsInterrupted, PortsSends DEF Kill, End, point
<1>9. ASSUME NEW d \in net, Deliver(d) PROVE PortsInv' /\ FoundInv'
  <2>1. UNCHANGED <<inbox, asking, ports, search>> /\ net' = net \ {d}
    BY <1>9 DEF Deliver, process
  <2>2. search # None => found' \subseteq Wanted(search.datagram)
    BY <1>9 DEF Deliver, FoundInv
  <2> QED BY <2>1, <2>2 DEF PortsInv, FoundInv
<1>10. ASSUME NEW d \in net, Lose(d) PROVE PortsInv' /\ FoundInv'
  BY <1>10 DEF Lose, PortsInv, FoundInv, process, point
<1>11. ASSUME NEW datagram \in Searches, Ask(datagram) PROVE PortsInv' /\ FoundInv'
  <2>1. /\ ports' = ports + 1 /\ search' = asking' /\ found' = {}
        /\ asking'.port = ports + 1 /\ UNCHANGED <<net, inbox>>
    BY <1>11 DEF Ask, process
  <2>2. \A d \in net : d.port \in Nat /\ d.port <= ports
    BY TimeAssumption DEF PortsInv, TypeOK, Messages
  <2>3. \A i \in DOMAIN inbox : inbox[i].port \in Nat /\ inbox[i].port <= ports
    <3>1. \A i \in DOMAIN inbox : inbox[i] \in Asked
      BY <1>0, ElementOfSeq, LenProperties
    <3>2. \A i \in DOMAIN inbox : inbox[i].port \in Nat
      BY <3>1, PortType, TimeAssumption
    <3> QED BY <3>2 DEF PortsInv
  <2>4. PortsInv'
    BY <1>0, <2>1, <2>2, <2>3 DEF PortsInv
  <2>5. \A d \in net' : d.port # search'.port
    BY <1>0, <2>1, <2>2
  <2>6. FoundInv'
    BY <2>1, <2>5 DEF FoundInv
  <2> QED BY <2>4, <2>6
<1>12. CASE DeliverSearch
  <2>1. asking \in Asked /\ asking' = None /\ UNCHANGED <<net, ports, search, found>>
    BY <1>12 DEF DeliverSearch, TypeOK, point
  <2>2. \A i \in DOMAIN inbox' : inbox'[i] = asking \/ \E j \in DOMAIN inbox : inbox'[i] = inbox[j]
    <3>1. CASE inbox' = inbox
      BY <3>1
    <3>2. CASE inbox' = Append(inbox, asking)
      BY <1>0, <2>1, <3>2, AppendProperties, LenProperties
    <3> QED BY <1>12, <3>1, <3>2 DEF DeliverSearch
  <2>3. asking # None
    BY <1>12 DEF DeliverSearch
  <2> QED BY <2>1, <2>2, <2>3 DEF PortsInv, FoundInv
<1>13. CASE LoseSearch
  BY <1>13 DEF LoseSearch, PortsInv, FoundInv, process, point
<1>14. CASE Close
  BY <1>14 DEF Close, PortsInv, FoundInv, process, network
<1>15. CASE Tick \/ UNCHANGED vars
  BY <1>2, <1>15 DEF Tick, vars, process
<1> QED
  BY <1>3, <1>4, <1>5, <1>6, <1>7, <1>8, <1>9, <1>10, <1>11, <1>12, <1>13, <1>14, <1>15
     DEF Next, Process, Network

LEMMA SteadyStep ==
  ASSUME SearchesFit, TypeOK, SteadyInv, [Next]_vars
  PROVE  SteadyInv'
<1> SUFFICES ASSUME steady' PROVE SteadyInv'
  BY DEF SteadyInv
<1>0. /\ inbox \in Seq(Asked) /\ now \in Nat /\ Delay \in Nat
      /\ search # None => search \in Asked /\ search.sent \in Nat
  BY TimeAssumption DEF TypeOK, Asked
<1>1. ~(\/ BindSsdp \/ BindHttp \/ AnnounceFirst \/ Start \/ Stop \/ SayByebye \/ Kill
        \/ LoseSearch \/ Close \/ \E d \in net : Lose(d))
  BY DEF Start, BindSsdp, BindHttp, End, AnnounceFirst, Stop, SayByebye, Kill,
         Lose, LoseSearch, Close, SteadyInv, history
<1>2. ASSUME UNCHANGED <<main, steady, search, found, asking, inbox, now>>, net \subseteq net'
      PROVE  SteadyInv'
  BY <1>2 DEF SteadyInv, Unanswered, Answer
<1>3. CASE Announce
  BY <1>2, <1>3 DEF Announce, point, history
<1>4. CASE Respond
  <2>1. /\ UNCHANGED <<main, steady, search, found, asking, now>>
        /\ inbox # <<>> /\ inbox' = Tail(inbox)
        /\ net' = net \cup Ads("response", Answers(Head(inbox).datagram), Head(inbox).port)
    BY <1>4 DEF Respond, point, history
  <2>2. Unanswered' => Unanswered
    <3>1. \A i \in DOMAIN inbox' : i + 1 \in DOMAIN inbox /\ inbox'[i] = inbox[i + 1]
      BY <1>0, <2>1, HeadTailProperties, LenProperties
    <3> QED BY <2>1, <3>1 DEF Unanswered
  <2>3. CASE Head(inbox) = search
    <3>1. search \in Asked /\ Unanswered
      <4>1. Head(inbox) \in Asked /\ Head(inbox) = inbox[1] /\ 1 \in DOMAIN inbox
        BY <1>0, <2>1, HeadTailProperties, LenProperties
      <4> QED BY <2>3, <4>1 DEF Unanswered
    <3>2. ASSUME NEW t \in Wanted(search.datagram)
          PROVE  \E d \in net' : /\ d.kind = "response" /\ d.port = search.port
                                 /\ d.target = t /\ d.sent = now
      BY <2>1, <2>3, <3>1, AnswerAll
    <3>3. now <= search.sent + Delay /\ steady
      BY <2>1, <3>1 DEF SteadyInv
    <3>4. \A t \in Wanted(search.datagram) : Answer(t)'
      BY <2>1, <3>2, <3>3 DEF Answer
    <3> QED BY <2>1, <2>2, <3>3, <3>4 DEF SteadyInv
  <2>4. CASE Head(inbox) # search
    <3>1. Unanswered => Unanswered'
      <4>1. \A i \in DOMAIN inbox : i = 1 \/ (i - 1 \in DOMAIN inbox' /\ inbox'[i - 1] = inbox[i])
        BY <1>0, <2>1, HeadTailProperties, LenProperties
      <4>2. Head(inbox) = inbox[1]
        BY <1>0, <2>1, HeadTailProperties, LenProperties
      <4> QED BY <2>1, <2>4, <4>1, <4>2 DEF Unanswered
    <3>2. \A t : Answer(t) => Answer(t)'
      BY <2>1 DEF Answer
    <3> QED BY <2>1, <2>2, <3>1, <3>2 DEF SteadyInv
  <2> QED BY <2>3, <2>4
<1>5. ASSUME NEW d \in net, Deliver(d) PROVE SteadyInv'
  <2>1. /\ UNCHANGED <<main, steady, search, asking, inbox, now>> /\ net' = net \ {d}
        /\ found' = IF search # None /\ d.kind = "response" /\ d.port = search.port
                    THEN found \cup {d.target} ELSE found
    BY <1>5 DEF Deliver, process
  <2>2. \A t : search # None /\ Answer(t) => t \in found' \/ Answer(t)'
    BY <2>1 DEF Answer
  <2>3. search # None
    BY <2>1 DEF SteadyInv
  <2>4. Unanswered' = Unanswered /\ found \subseteq found'
    BY <2>1 DEF Unanswered
  <2> QED BY <2>1, <2>2, <2>3, <2>4 DEF SteadyInv
<1>6. ASSUME NEW datagram \in Searches, Ask(datagram) PROVE SteadyInv'
  <2>1. /\ search' = asking' /\ asking' = [datagram |-> datagram, port |-> ports + 1, sent |-> now]
        /\ steady' = (main = "serve") /\ UNCHANGED <<now, main>>
    BY <1>6 DEF Ask, process
  <2>2. Unanswered' /\ main' = "serve" /\ search'.sent = now
    BY <2>1 DEF Unanswered
  <2>3. search' # None
    <3>1. asking' \in [datagram : Searches, port : Nat, sent : Nat]
      BY <1>0, <2>1, TimeAssumption DEF TypeOK
    <3> QED BY <2>1, <3>1, NoneAssumption
  <2> QED BY <1>0, <2>1, <2>2, <2>3 DEF SteadyInv
<1>7. CASE DeliverSearch
  <2>1. /\ UNCHANGED <<main, steady, search, found, now, net>>
        /\ asking \in Asked /\ asking' = None
    BY <1>7 DEF DeliverSearch, TypeOK, point, history
  <2>2. inbox' = Append(inbox, asking)
    BY <1>7, <2>1 DEF DeliverSearch, SteadyInv
  <2>3. search # None
    BY <2>1 DEF SteadyInv
  <2>4. Unanswered' = Unanswered
    <3>1. \A i \in DOMAIN inbox : i \in DOMAIN inbox' /\ inbox'[i] = inbox[i]
      BY <1>0, <2>1, <2>2, AppendProperties, LenProperties
    <3>2. \E i \in DOMAIN inbox' : inbox'[i] = asking
      <4>1. Len(inbox) + 1 \in DOMAIN inbox' /\ inbox'[Len(inbox) + 1] = asking
        BY <1>0, <2>1, <2>2, AppendProperties, LenProperties
      <4> QED BY <4>1
    <3>3. \A i \in DOMAIN inbox' : inbox'[i] = asking \/ (i \in DOMAIN inbox /\ inbox'[i] = inbox[i])
      BY <1>0, <2>1, <2>2, AppendProperties, LenProperties
    <3> QED BY <2>1, <2>3, <3>1, <3>2, <3>3 DEF Unanswered
  <2>5. \A t : Answer(t)' = Answer(t)
    BY <2>1 DEF Answer
  <2> QED BY <2>1, <2>4, <2>5 DEF SteadyInv
<1>8. CASE Tick
  <2>1. /\ UNCHANGED <<main, steady, search, found, asking, inbox, net>> /\ now' = now + 1
    BY <1>8 DEF Tick, process, network, point, history
  <2>0. inbox = <<>> /\ (asking # None => now < asking.sent + Delay)
    BY <1>8 DEF Tick, Prompt
  <2>2. search # None /\ search.sent <= now /\ main = "serve" /\ search.sent \in Nat
    BY <1>0, <2>1 DEF SteadyInv
  <2>3. Unanswered => asking = search
    <3>1. DOMAIN inbox = {}
      BY <2>0
    <3> QED BY <3>1 DEF Unanswered
  <2>4. Unanswered => now + 1 <= search.sent + Delay
    <3> SUFFICES ASSUME Unanswered PROVE now + 1 <= search.sent + Delay
      OBVIOUS
    <3>1. now < search.sent + Delay
      BY <2>0, <2>2, <2>3
    <3> QED BY <1>0, <2>2, <3>1
  <2>5. Unanswered' = Unanswered /\ \A t : Answer(t)' = Answer(t)
    BY <2>1 DEF Unanswered, Answer
  <2>6. search.sent <= now + 1
    BY <1>0, <2>2
  <2> QED BY <2>1, <2>2, <2>4, <2>5, <2>6 DEF SteadyInv
<1>9. CASE UNCHANGED vars
  <2>1. UNCHANGED <<main, steady, search, found, asking, inbox, now, net>>
    BY <1>9 DEF vars, process, network, point, history
  <2> QED BY <1>2, <2>1
<1> QED BY <1>1, <1>3, <1>4, <1>5, <1>6, <1>7, <1>8, <1>9 DEF Next, Process, Network

(* A control point that listens for longer than two datagrams are on their *)
(* way has, when it stops, heard of everything it searched for if the      *)
(* server served all the while and nothing was lost, and in no case of     *)
(* anything else (ssdp/mod.rs, serve_search_requests; targets.rs,          *)
(* matching; examples/ssdp_discover.rs).                                   *)
THEOREM SearchesAnswered ==
  ASSUME SearchesFit, 2 * Delay < Wait PROVE Spec => []SearchComplete
<1>1. ASSUME TypeOK, NetInv, FoundInv, SteadyInv PROVE SearchComplete
  <2> SUFFICES ASSUME search # None, steady, now = search.sent + Wait,
                      NEW t \in Wanted(search.datagram)
               PROVE  t \in found
    BY <1>1 DEF SearchComplete, FoundInv
  <2>1. search.sent \in Nat /\ Delay \in Nat /\ Wait \in Nat
    BY <1>1, TimeAssumption DEF TypeOK, Asked
  <2>2. ~Unanswered
    BY <1>1, <2>1 DEF SteadyInv
  <2>3. ~Answer(t)
    <3>1. ASSUME NEW d \in net, d.sent <= search.sent + Delay PROVE FALSE
      <4>1. d.sent \in Nat /\ now <= d.sent + Delay
        BY <1>1 DEF NetInv, TypeOK, Messages
      <4> QED BY <2>1, <3>1, <4>1
    <3> QED BY <3>1 DEF Answer
  <2> QED BY <1>1, <2>2, <2>3 DEF SteadyInv
<1>2. SearchesFit /\ TypeOK /\ PortsInv /\ FoundInv /\ SteadyInv /\ [Next]_vars
        => PortsInv' /\ FoundInv' /\ SteadyInv'
  BY PortsStep, SteadyStep
<1>3. Spec => []NetInv
  BY NetAlways, PTL
<1>4. Init /\ [][Next]_vars => [](PortsInv /\ FoundInv /\ SteadyInv)
  BY <1>2, PortsInit, TypeInit, TypeStep, PTL
<1> QED BY <1>1, <1>3, <1>4, TypeInit, TypeStep, PTL DEF Spec

(* No expect() of main relies on more than validation has seen to          *)
(* (main.rs, init_logging and resolve_uuid; config.rs, validate).          *)
THEOREM NoPanic == Spec => []NeverPanics
<1>1. TypeOK => NeverPanics
  BY DEF TypeOK, NeverPanics
<1> QED BY <1>1, TypeInit, TypeStep, PTL DEF Spec

=============================================================================
