------------------------------- MODULE MxSim -------------------------------
(***************************************************************************)
(* The simulated mail exchanger the prober is tested against: the policy   *)
(* engine (internal/mxsim/policy), its SMTP sessions (internal/mxsim/smtp) *)
(* and the admin API that resets it and swaps its profile while sessions   *)
(* run (internal/mxsim/admin).  What a client is told is read with the     *)
(* prober's own classifier.                                                *)
(*                                                                         *)
(* Every engine method runs under the engine's mutex and is one step; a    *)
(* session takes a step per command, and two for RCPT, whose tarpit lies   *)
(* between the session's checks and the engine's.  Time is relative: how   *)
(* long ago a connection or RCPT was, how long a cooldown still lasts.     *)
(***************************************************************************)
EXTENDS Classify, Sequences, FiniteSets

CONSTANTS
  IPs, Conns,
  Environments,   \* the profile at the start, what clients and operators do,
                  \* and bounds: maxRcpts in a transaction and maxTxns in a
                  \* connection, the depth to which times are remembered
  Horizon         \* the longest window or delay of a profile

VARIABLES
  env,
  prof,           \* Engine.prof
  ips,            \* Engine.ips
  stats,          \* Stats.CurrentConcurrent and MaxConcurrentSeen
  sess,           \* the sessions, by connection
  admin,          \* the chaos request in progress
  obs             \* observers, read by no action

vars == <<env, prof, ips, stats, sess, admin, obs>>

Rule == [count : Nat, window : 0..Horizon]
Profile ==
  [maxConns : Nat, connRate : Rule, rcptRate : Rule, rcptPerConn : Nat,
   cooldown : Nat, greylist : Nat, catchAll : BOOLEAN,
   catchAllDomains : SUBSET STRING, domains : SUBSET STRING, relayDenied : BOOLEAN,
   domainsPerTx : Nat, txPerConn : Nat,
   tls : {"absent", "offered", "required", "broken"},
   chaos : SUBSET {"drop", "temp"}, exists : SUBSET STRING, bounce : SUBSET STRING,
   timeout : SUBSET STRING, drop : SUBSET STRING,
   says : [accept : Reply, reject : Reply, tooMany : Reply, connRate : Reply,
           rcptRate : Reply, greylist : Reply, tempError : Reply,
           relayDenied : Reply, domainLimit : Reply, txLimit : Reply]]

Profiles(e) == {e.prof} \cup e.puts

ASSUME MxSimAssumption ==
  /\ IsFiniteSet(Conns) /\ Horizon \in Nat \ {0}
  /\ \A e \in Environments :
       /\ Profiles(e) \subseteq Profile
       /\ e.chaos \subseteq SUBSET {"drop", "temp"}
       /\ e.ips \subseteq IPs /\ e.conns \subseteq Conns
       /\ e.depth \in [conn : Nat, rcpt : Nat]
       \* The depth to which times are remembered loses none that matter.
       /\ \A p \in Profiles(e) :
            /\ p.connRate.count > 0 => e.depth.conn > p.connRate.count
            /\ p.rcptRate.count > 0 => e.depth.rcpt > p.rcptRate.count

\* The replies a profile is given mean what they are given for: the one for a
\* recipient that is taken is read as valid, the one for a recipient that is not
\* never is, and the others are no verdicts.
Meant ==
  \A e \in Environments : \A p \in Profiles(e) :
    /\ ClassifyAs(p.says.accept) = "valid" /\ ClassifyAs(p.says.reject) # "valid"
    /\ \A reply \in {p.says.rcptRate, p.says.greylist, p.says.tempError,
                     p.says.relayDenied, p.says.domainLimit} :
         ~Verdict(ClassifyAs(reply))

ASSUME MeantAssumption == Meant

NoAddr == [local |-> "none", domain |-> "none"]
NoReply == [code |-> 0, ec |-> NoCode, words |-> {}]
Silent == [cmd |-> "none", reply |-> NoReply]

\* A connection that is not open; the fields of smtp.session.
Idle == [phase |-> "closed", ip |-> "none", helo |-> FALSE, tls |-> FALSE,
         mail |-> FALSE, rcpts |-> 0, txDomains |-> {}, txns |-> 0,
         addr |-> NoAddr, said |-> Silent]

\* An address nobody connected from since the last Reset.
state == [connTimes |-> <<>>, rcptTimes |-> <<>>, active |-> 0, cooldown |-> 0,
          greylist |-> [a \in env.addrs |-> -1]]

Open(c) == sess[c].phase # "closed"
OpenFrom(ip) == {c \in Conns : Open(c) /\ sess[c].ip = ip}

Init ==
  /\ env \in Environments
  /\ prof = env.prof
  /\ ips = [ip \in IPs |-> state]
  /\ stats = [current |-> 0, max |-> 0]
  /\ sess = [c \in Conns |-> Idle]
  /\ admin = [phase |-> "idle", np |-> env.prof]
  /\ obs = [passed |-> [ip \in IPs |-> <<>>],
            asked |-> [ip \in IPs |-> [a \in env.addrs |-> -1]],
            crossed |-> {}, unseen |-> FALSE, put |-> prof, stale |-> FALSE]
-----------------------------------------------------------------------------
(* Rate rules and cooldowns.                                               *)

enabled(rule) == rule.count > 0 /\ rule.window > 0

\* The ages are in order, oldest first.
Newest(ages, n) == SubSeq(ages, Len(ages) - n + 1, Len(ages))

\* Only the newest count + 1 of them can matter, since a rule is exceeded when
\* those lie in its window: depth is that of the largest count of the
\* environment's profiles, 0 if they have no rule.
Stamp(ages, depth) ==
  LET all == Append(ages, 0)
  IN Newest(all, IF Len(all) > depth THEN depth ELSE Len(all))

\* The leading ones that lie outside the window are dropped.
prune(ages, window) ==
  LET i == CHOOSE i \in 0..Len(ages) : /\ \A j \in 1..i : ages[j] >= window
                                       /\ i < Len(ages) => ages[i + 1] < window
  IN Newest(ages, Len(ages) - i)

\* One more than the count is let through.
ExceedsLate(rule, ages) ==
  enabled(rule) /\ Len(prune(ages, rule.window)) > rule.count + 1

Exceeds(rule, ages) == enabled(rule) /\ Len(prune(ages, rule.window)) > rule.count

startCooldown(s) ==
  [s EXCEPT !.cooldown = IF prof.cooldown > @ THEN prof.cooldown ELSE @]
-----------------------------------------------------------------------------
(* Connections.                                                            *)

Unavailable == [code |-> 421, ec |-> <<4, 7, 0>>, words |-> {"throttle"}]

\* A client in its cooldown is punished again for knocking.
OnConnectPunishing(s) ==
  IF s.cooldown > 0 THEN [s |-> startCooldown(s), reason |-> "cooldown"]
  ELSE IF prof.maxConns > 0 /\ s.active >= prof.maxConns
    THEN [s |-> startCooldown(s), reason |-> "max_concurrent"]
  ELSE IF Exceeds(prof.connRate, s.connTimes)
    THEN [s |-> startCooldown(s), reason |-> "conn_rate"]
  ELSE [s |-> [s EXCEPT !.active = @ + 1], reason |-> "banner"]

\* The decision on a new connection and the state it leaves, s having counted
\* the connection already.  A client in its cooldown only hears so.
OnConnect(s) ==
  IF s.cooldown > 0 THEN [s |-> s, reason |-> "cooldown"]
  ELSE IF prof.maxConns > 0 /\ s.active >= prof.maxConns
    THEN [s |-> startCooldown(s), reason |-> "max_concurrent"]
  ELSE LET kept == IF enabled(prof.connRate)
                     THEN [s EXCEPT !.connTimes = prune(@, prof.connRate.window)]
                     ELSE s
       IN IF Exceeds(prof.connRate, s.connTimes)
            THEN [s |-> startCooldown(kept), reason |-> "conn_rate"]
            ELSE [s |-> [kept EXCEPT !.active = @ + 1], reason |-> "banner"]

Refusal421(reason) ==
  IF reason = "max_concurrent" THEN prof.says.tooMany
  ELSE IF enabled(prof.connRate) THEN prof.says.connRate ELSE Unavailable

\* handle, up to its loop.  A refused client hears why and is hung up on; its
\* OnDisconnect changes nothing.
Connect(c, ip) ==
  /\ ~Open(c)
  /\ LET v == OnConnect([ips[ip] EXCEPT !.connTimes = Stamp(@, env.depth.conn)])
         admitted == v.reason = "banner"
     IN /\ ips' = [ips EXCEPT ![ip] = v.s]
        /\ IF admitted
             THEN /\ sess' = [sess EXCEPT ![c] = [Idle EXCEPT !.phase = "open", !.ip = ip]]
                  /\ stats' = [current |-> stats.current + 1,
                               max |-> IF stats.current + 1 > stats.max
                                         THEN stats.current + 1 ELSE stats.max]
                  /\ obs' = [obs EXCEPT !.unseen = FALSE]
             ELSE /\ sess' = [sess EXCEPT ![c] =
                       [Idle EXCEPT !.said = [cmd |-> "CONN", reply |-> Refusal421(v.reason)]]]
                  /\ UNCHANGED <<stats, obs>>
  /\ UNCHANGED <<prof, admin>>

\* The counts are lowered even where a Reset has forgotten the connection.
Less(n) == IF n > 0 THEN n - 1 ELSE 0

\* OnDisconnect, deferred by handle until the session's loop is left.
OnDisconnect(c) ==
  /\ sess[c].phase = "closing"
  /\ sess' = [sess EXCEPT ![c] = Idle]
  /\ ips' = [ips EXCEPT ![sess[c].ip].active = Less(@)]
  /\ stats' = [stats EXCEPT !.current = Less(@)]
  /\ obs' = [obs EXCEPT !.crossed =
               IF OpenFrom(sess[c].ip) = {c} THEN @ \ {sess[c].ip} ELSE @]
  /\ UNCHANGED <<prof, admin>>

\* The session's loop ends: QUIT, a connection lost, the idle deadline, the end
\* of a timeout recipient's hold.
Leave(c) ==
  /\ sess[c].phase \in {"open", "held"}
  /\ sess' = [sess EXCEPT ![c].phase = "closing"]
  /\ UNCHANGED <<prof, ips, stats, admin, obs>>
-----------------------------------------------------------------------------
(* Commands that leave the engine alone.  Those that change nothing in the *)
(* session either (NOOP, VRFY, an unknown command, a syntax error) are     *)
(* stuttering steps.                                                       *)

Hears(s, cmd, reply) == [s EXCEPT !.said = [cmd |-> cmd, reply |-> reply]]
NoTransaction(s) ==
  [s EXCEPT !.mail = FALSE, !.rcpts = 0, !.txDomains = {}, !.addr = NoAddr, !.said = Silent]

\* In the session's loop, with a command this environment's clients send.
Command(c, cmd) == sess[c].phase = "open" /\ cmd \in env.cmds

Becomes(c, s) ==
  /\ sess' = [sess EXCEPT ![c] = s]
  /\ UNCHANGED <<prof, ips, stats, admin, obs>>

Helo(c) ==
  /\ Command(c, "HELO")
  /\ Becomes(c, [NoTransaction(sess[c]) EXCEPT !.helo = TRUE])

Mail(c) ==
  /\ Command(c, "MAIL")
  /\ LET s == sess[c] IN
     IF ~s.helo
       THEN Becomes(c, Hears(s, "MAIL", [code |-> 503, ec |-> <<5, 5, 1>>, words |-> {}]))
     ELSE IF prof.tls = "required" /\ ~s.tls
       THEN Becomes(c, Hears(s, "MAIL", [code |-> 530, ec |-> <<5, 7, 0>>,
                                         words |-> {"sender", "tls"}]))
     ELSE IF prof.txPerConn > 0 /\ s.txns >= prof.txPerConn
       THEN Becomes(c, Hears(s, "MAIL", prof.says.txLimit))
     ELSE /\ s.txns < env.maxTxns
          /\ Becomes(c, [NoTransaction(s) EXCEPT !.mail = TRUE, !.txns = @ + 1])

\* A MAIL the session was given in the clear is remembered.
StartTLSKeepsMail(c, works) ==
  /\ Command(c, "STARTTLS") /\ ~sess[c].tls
  /\ prof.tls \in {"offered", "required", "broken"}
  /\ works => prof.tls # "broken"
  /\ Becomes(c, IF works THEN [sess[c] EXCEPT !.tls = TRUE, !.helo = FALSE]
                ELSE [sess[c] EXCEPT !.phase = "closing"])

\* Everything said before TLS is forgotten, but for the transactions opened.
StartTLS(c, works) ==
  /\ Command(c, "STARTTLS") /\ ~sess[c].tls
  /\ prof.tls \in {"offered", "required", "broken"}
  /\ works => prof.tls # "broken"
  /\ Becomes(c, IF works
                  THEN [NoTransaction(sess[c]) EXCEPT !.tls = TRUE, !.helo = FALSE]
                  ELSE [sess[c] EXCEPT !.phase = "closing"])

Rset(c) ==
  /\ Command(c, "RSET")
  /\ Becomes(c, NoTransaction(sess[c]))

\* The text is read to its end; a connection lost on the way is a Leave.
Data(c) ==
  /\ Command(c, "DATA")
  /\ Becomes(c, IF ~sess[c].mail \/ sess[c].rcpts = 0
                  THEN Hears(sess[c], "DATA", [code |-> 503, ec |-> <<5, 5, 1>>, words |-> {}])
                  ELSE NoTransaction(sess[c]))
-----------------------------------------------------------------------------
(* RCPT: the session's checks, the tarpit, the engine's decision.          *)

Rcpt(c, a) ==
  /\ Command(c, "RCPT")
  /\ LET s == sess[c]
         one == prof.domainsPerTx > 0 /\ a.domain \notin s.txDomains
     IN IF ~s.mail
          THEN Becomes(c, [Hears(s, "RCPT", [code |-> 503, ec |-> <<5, 5, 1>>, words |-> {}])
                             EXCEPT !.addr = a])
        ELSE IF one /\ Cardinality(s.txDomains) >= prof.domainsPerTx
          THEN Becomes(c, [Hears(s, "RCPT", prof.says.domainLimit) EXCEPT !.addr = a])
        ELSE /\ s.rcpts < env.maxRcpts
             /\ Becomes(c, [s EXCEPT !.phase = "rcpt", !.addr = a, !.said = Silent,
                              !.rcpts = @ + 1,
                              !.txDomains = IF one THEN @ \cup {a.domain} ELSE @])

\* A retry passes, however early.
GreylistedOnce(s, a) == prof.greylist > 0 /\ s.greylist[a] = -1

\* Not asked before, or too recently.
Greylisted(s, a) == prof.greylist > 0 /\ s.greylist[a] < prof.greylist

\* The decision: the first rule that applies.  luck is what the dice of the
\* chaos rates say.
Reason(s, a, perConn, luck) ==
  IF s.cooldown > 0 THEN "cooldown"
  ELSE IF prof.rcptPerConn > 0 /\ perConn > prof.rcptPerConn THEN "rcpt_per_conn"
  ELSE IF Exceeds(prof.rcptRate, Stamp(s.rcptTimes, env.depth.rcpt)) THEN "rcpt_rate"
  ELSE IF prof.relayDenied /\ prof.domains # {} /\ a.domain \notin prof.domains
    THEN "relay_denied"
  ELSE IF luck # "none" THEN luck
  ELSE IF a.local \in prof.drop THEN "drop"
  ELSE IF a.local \in prof.timeout THEN "timeout"
  ELSE IF Greylisted(s, a) THEN "greylist"
  ELSE IF a.local \in prof.bounce THEN "bounce_list"
  ELSE IF a.local \in prof.exists THEN "accept"
  ELSE IF prof.catchAll \/ a.domain \in prof.catchAllDomains THEN "catch_all"
  ELSE "unknown"

Throttles == {"cooldown", "rcpt_rate"}
Limited   == Throttles \cup {"rcpt_per_conn"}

ReplyTo(reason) ==
  CASE reason = "cooldown" -> IF enabled(prof.rcptRate) THEN prof.says.rcptRate ELSE Unavailable
    [] reason = "rcpt_per_conn" -> [code |-> 452, ec |-> <<4, 5, 3>>, words |-> {"throttle"}]
    [] reason = "rcpt_rate" -> prof.says.rcptRate
    [] reason = "relay_denied" -> prof.says.relayDenied
    [] reason = "temp" -> prof.says.tempError
    [] reason = "greylist" -> prof.says.greylist
    [] reason \in {"bounce_list", "unknown"} -> prof.says.reject
    [] reason \in {"accept", "catch_all"} -> prof.says.accept
    [] OTHER -> NoReply

\* What the engine remembers of a RCPT it decided so.
Remembers(s, a, reason) ==
  LET t == IF reason \in {"cooldown", "rcpt_per_conn"} \/ ~enabled(prof.rcptRate) THEN s
           ELSE [s EXCEPT !.rcptTimes = prune(Stamp(@, env.depth.rcpt), prof.rcptRate.window)]
      g == IF reason = "greylist" /\ s.greylist[a] = -1 THEN [t EXCEPT !.greylist[a] = 0] ELSE t
  IN IF reason \in Throttles THEN startCooldown(g) ELSE g

OnRcpt(c, luck) ==
  /\ sess[c].phase = "rcpt"
  /\ luck \in {"none"} \cup prof.chaos
  /\ LET ip == sess[c].ip
         a  == sess[c].addr
         reason == Reason(ips[ip], a, sess[c].rcpts, luck)
     IN /\ ips' = [ips EXCEPT ![ip] = Remembers(@, a, reason)]
        /\ sess' = [sess EXCEPT ![c] =
             [Hears(@, "RCPT", ReplyTo(reason)) EXCEPT
                !.phase = CASE reason \in Throttles \cup {"drop"} -> "closing"
                            [] reason = "timeout" -> "held"
                            [] OTHER -> "open"]]
        /\ obs' = [obs EXCEPT
             !.passed[ip] = IF reason \in Limited THEN @ ELSE Stamp(@, env.depth.rcpt),
             !.asked[ip][a] = IF @ = -1 /\ prof.greylist > 0 THEN 0 ELSE @]
  /\ UNCHANGED <<prof, stats, admin>>
-----------------------------------------------------------------------------
(* The admin API, and the clock.                                           *)

\* What was said before is no claim about the new profile, or of what a Reset
\* made the engine forget.
Unsaid == [c \in Conns |-> [sess[c] EXCEPT !.said = Silent]]

SetProfile(p) ==
  /\ prof' = p
  /\ ips' = [ip \in IPs |-> [ips[ip] EXCEPT !.cooldown = 0]]
  /\ sess' = Unsaid
  /\ UNCHANGED stats

\* PUT /profiles/{name}
putProfile(p) ==
  /\ p \in env.puts
  /\ SetProfile(p)
  /\ obs' = [obs EXCEPT !.put = p, !.passed = [ip \in IPs |-> <<>>],
                        !.stale = @ \/ admin.phase = "copied"]
  /\ UNCHANGED admin

\* The number of connections open is zeroed too.
resetProfileAll ==
  /\ env.resets
  /\ ips' = [ip \in IPs |-> state]
  /\ stats' = [current |-> 0, max |-> 0]
  /\ sess' = Unsaid
  /\ obs' = [obs EXCEPT !.passed = [ip \in IPs |-> <<>>],
                        !.asked = [ip \in IPs |-> [a \in env.addrs |-> -1]],
                        !.crossed = @ \cup {ip \in IPs : OpenFrom(ip) # {}},
                        !.unseen = stats.current > 0]
  /\ UNCHANGED <<prof, admin>>

\* POST /reset: every address starts anew, its open connections forgotten; the
\* number of connections open is kept.
resetProfile ==
  /\ env.resets
  /\ ips' = [ip \in IPs |-> state]
  /\ stats' = [stats EXCEPT !.max = 0]
  /\ sess' = Unsaid
  /\ obs' = [obs EXCEPT !.passed = [ip \in IPs |-> <<>>],
                        !.asked = [ip \in IPs |-> [a \in env.addrs |-> -1]],
                        !.crossed = @ \cup {ip \in IPs : OpenFrom(ip) # {}},
                        !.unseen = stats.current > 0]
  /\ UNCHANGED <<prof, admin>>

\* POST /chaos: the profile is read and SetChaos called at once ...
chaosSet(chaos, tarpit) ==
  /\ admin.phase = "idle" /\ chaos \in env.chaos
  /\ prof' = [prof EXCEPT !.chaos = chaos]
  /\ admin' = IF tarpit THEN [phase |-> "set", np |-> prof] ELSE admin
  /\ UNCHANGED <<ips, stats, sess, obs>>

\* ... and, where the request also sets a tarpit, the profile as it then is ...
chaosCopy ==
  /\ admin.phase = "set"
  /\ admin' = [phase |-> "copied", np |-> prof]
  /\ UNCHANGED <<prof, ips, stats, sess, obs>>

\* ... is written back with the tarpit in it.
chaosWrite ==
  /\ admin.phase = "copied"
  /\ SetProfile(admin.np)
  /\ admin' = [phase |-> "idle", np |-> env.prof]
  /\ obs' = [obs EXCEPT !.passed = [ip \in IPs |-> <<>>]]

Older(age) == IF age = -1 \/ age = Horizon THEN age ELSE age + 1
Aged(ages) == prune([i \in 1..Len(ages) |-> ages[i] + 1], Horizon)

\* Time passes, or POST /clock/advance says so.
Tick ==
  /\ ips' = [ip \in IPs |->
       [ips[ip] EXCEPT !.connTimes = Aged(@), !.rcptTimes = Aged(@),
                       !.cooldown = Less(@),
                       !.greylist = [a \in env.addrs |-> Older(@[a])]]]
  /\ obs' = [obs EXCEPT !.passed = [ip \in IPs |-> Aged(@[ip])],
                        !.asked = [ip \in IPs |-> [a \in env.addrs |-> Older(@[ip][a])]]]
  /\ UNCHANGED <<prof, stats, sess, admin>>
-----------------------------------------------------------------------------
Session(c) ==
  \/ \E ip \in env.ips : Connect(c, ip)
  \/ Helo(c) \/ Mail(c) \/ Rset(c) \/ Data(c)
  \/ \E works \in BOOLEAN : StartTLS(c, works)
  \/ \E a \in env.addrs : Rcpt(c, a)
  \/ \E luck \in {"none", "drop", "temp"} : OnRcpt(c, luck)
  \/ Leave(c) \/ OnDisconnect(c)

Admin ==
  \/ \E p \in env.puts : putProfile(p)
  \/ resetProfile
  \/ \E chaos \in env.chaos, tarpit \in BOOLEAN : chaosSet(chaos, tarpit)
  \/ chaosCopy \/ chaosWrite

Next == ((\E c \in env.conns : Session(c)) \/ Admin \/ Tick) /\ UNCHANGED env

\* Time passes, whatever clients and operators do.
Spec == Init /\ [][Next]_vars /\ WF_vars(Tick /\ UNCHANGED env)
-----------------------------------------------------------------------------
Ages == UNION {[1..n -> 0..(Horizon - 1)] : n \in 0..(env.depth.conn + env.depth.rcpt)}

TypeOK ==
  /\ \A ip \in IPs : /\ ips[ip].connTimes \in Ages /\ ips[ip].rcptTimes \in Ages
                     /\ ips[ip].active \in 0..Cardinality(Conns)
                     /\ ips[ip].cooldown \in Nat
                     /\ ips[ip].greylist \in [env.addrs -> -1..Horizon]
  /\ stats.current \in 0..Cardinality(Conns) /\ stats.max \in 0..Cardinality(Conns)
  /\ \A c \in Conns : /\ sess[c].phase \in {"closed", "open", "rcpt", "held", "closing"}
                      /\ sess[c].said.reply \in Reply
                      /\ sess[c].phase \in {"rcpt", "held"} => sess[c].addr \in env.addrs

\* dispatch keeps a session's steps in order whatever commands arrive: no
\* recipient outside a transaction, no transaction without a greeting, none in
\* the clear where TLS is required, and no more domains and transactions than a
\* profile that stays allows.
SessionOrder ==
  \A c \in Conns :
    LET s == sess[c] IN
    /\ s.mail => s.helo /\ s.txns > 0
    /\ (s.rcpts > 0 \/ s.txDomains # {} \/ s.phase = "rcpt") => s.mail
    /\ env.puts = {} =>
         /\ s.mail /\ prof.tls = "required" => s.tls
         /\ prof.domainsPerTx > 0 => Cardinality(s.txDomains) <= prof.domainsPerTx
         /\ prof.txPerConn > 0 => s.txns <= prof.txPerConn

\* The engine's count of open connections is the number of sessions OnConnect
\* admitted, and an address's own count is the number of its connections, unless
\* a Reset found some of them open; it is never more.  A limit on concurrent
\* connections that stays is kept, and MaxConcurrentSeen saw the present.
OpenCounted ==
  /\ TypeOK
  /\ stats.current = Cardinality({c \in Conns : Open(c)})
  /\ stats.max >= stats.current \/ obs.unseen
  /\ \A ip \in IPs :
       LET n == Cardinality(OpenFrom(ip)) IN
       /\ ips[ip].active <= n
       /\ ip \notin obs.crossed =>
            /\ ips[ip].active = n
            /\ prof.maxConns > 0 /\ env.puts = {} => n <= prof.maxConns

\* OnRcpt lets no more RCPTs of an address past the rate limit last PUT within any
\* of its windows than the limit's count, over all its connections and whichever
\* were refused; unless the PUT fell between the two halves of a chaos request,
\* which then undoes it.
RcptRateKept ==
  \A ip \in IPs :
    LET rule == obs.put.rcptRate
        recent == {i \in DOMAIN obs.passed[ip] : obs.passed[ip][i] < rule.window}
    IN enabled(rule) /\ ~obs.stale => Cardinality(recent) <= rule.count

\* The mailbox behind an address takes mail.
Deliverable(a) ==
  /\ a.local \notin prof.bounce
  /\ a.local \in prof.exists \/ prof.catchAll \/ a.domain \in prof.catchAllDomains

\* What the prober makes of what it was told last.
Class(c) == IF sess[c].said.cmd = "RCPT" THEN ClassifyAs(sess[c].said.reply)
                                          ELSE beforeRCPT(sess[c].said.reply)

\* A verdict the prober reads in a reply of the simulator is true of the
\* profile's recipients, comes only from RCPT, and with greylisting only from an
\* address that asked before, the delay ago or more.
VerdictsTrue ==
  \A c \in Conns :
    Verdict(Class(c)) =>
      /\ sess[c].said.cmd = "RCPT"
      /\ (Class(c) = "valid") <=> Deliverable(sess[c].addr)
      /\ prof.greylist > 0 => obs.asked[sess[c].ip][sess[c].addr] >= prof.greylist

\* Whatever is said, ClassifyAs calls a mailbox missing exactly where the reply
\* condemns one, and the pacer counts a throttle exactly where it tells us to
\* slow down, however the classifier's rules are ordered.
ReadAsMeant ==
  \A c \in Conns :
    LET r == sess[c].said.reply IN
    /\ ClassifyAs(r) = "invalid" <=> Condemns(r)
    /\ IsThrottle(ClassifyAs(r)) <=> SlowsUs(r)

\* A cooldown ends, however often its client knocks and whatever RCPTs its
\* remaining connections send: startCooldown is reached at most once per open
\* connection while it lasts.
CooldownEnds ==
  \A ip \in IPs : (ips[ip].cooldown > 0) ~> (ips[ip].cooldown = 0)
=============================================================================
