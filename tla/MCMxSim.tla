------------------------------ MODULE MCMxSim ------------------------------
(***************************************************************************)
(* Profiles after config/mxsim, with small counts and windows, and the     *)
(* clients and operators they meet.                                        *)
(***************************************************************************)
EXTENDS MxSim, TLC

R(code, ec, words) == [code |-> code, ec |-> ec, words |-> words]

\* The replies of gmail.yaml and of the defaults; relay_denied has none, and is
\* given the code and the wording of Sendmail.
Gmail ==
  [accept      |-> R(250, <<2, 1, 5>>, {}),
   reject      |-> R(550, <<5, 1, 1>>, {"mailbox"}),
   tooMany     |-> R(421, <<4, 7, 0>>, {"throttle"}),
   connRate    |-> R(421, <<4, 7, 0>>, {"throttle"}),
   rcptRate    |-> R(421, <<4, 7, 0>>, {"throttle"}),
   greylist    |-> R(450, <<4, 2, 0>>, {"greylist", "throttle"}),
   tempError   |-> R(451, <<4, 3, 0>>, {"throttle"}),
   relayDenied |-> R(550, <<5, 7, 1>>, {"relay"}),
   domainLimit |-> R(451, <<4, 3, 0>>, {"domainlimit"}),
   txLimit     |-> R(452, <<4, 3, 2>>, {})]

\* outlook.yaml: rates in a 451, and a refusal that names no mailbox.
Outlook == [Gmail EXCEPT !.connRate = R(451, <<4, 7, 650>>, {"throttle"}),
                         !.rcptRate = R(451, <<4, 7, 650>>, {"throttle"}),
                         !.reject   = R(550, <<5, 4, 1>>, {"sender"})]

\* yahoo.yaml: a policy code for a mailbox that is missing.
Yahoo == [Gmail EXCEPT !.greylist = R(451, <<4, 7, 1>>, {"greylist", "throttle"}),
                       !.reject   = R(554, <<5, 7, 1>>, {"mailbox"})]

NoRule == [count |-> 0, window |-> 0]
Per(count, window) == [count |-> count, window |-> window]

Plain ==
  [maxConns |-> 0, connRate |-> NoRule, rcptRate |-> NoRule, rcptPerConn |-> 0,
   cooldown |-> 0, greylist |-> 0, catchAll |-> FALSE, catchAllDomains |-> {},
   domains |-> {}, relayDenied |-> FALSE, domainsPerTx |-> 0, txPerConn |-> 0,
   tls |-> "absent", chaos |-> {}, exists |-> {"valid"}, bounce |-> {"nope"},
   timeout |-> {"blackhole"}, drop |-> {"reset"}, says |-> Gmail]

At(local, domain) == [local |-> local, domain |-> domain]

Ask == {"HELO", "MAIL", "RCPT"}

\* No operator: connections from one address ask about addrs.
Clients(p, conns, addrs) ==
  [prof |-> p, ips |-> {"ip1"}, conns |-> conns, cmds |-> Ask, addrs |-> addrs,
   puts |-> {}, resets |-> FALSE, chaos |-> {},
   maxRcpts |-> 2, maxTxns |-> 1, depth |-> [conn |-> 0, rcpt |-> 0]]

\* A rate limit shared by the connections of an address.
Busy ==
  [Clients([Plain EXCEPT !.rcptRate = Per(2, 2), !.rcptPerConn = 2, !.cooldown = 2,
                         !.says = Outlook],
           {"c1", "c2"}, {At("valid", "d1")})
     EXCEPT !.maxRcpts = 3, !.maxTxns = 2, !.depth.rcpt = 3, !.resets = TRUE]

\* More connections than an address may have, too fast; operators reset.
Crowded ==
  [Clients([Plain EXCEPT !.maxConns = 2, !.connRate = Per(3, 2), !.cooldown = 2],
           {"c1", "c2", "c3"}, {})
     EXCEPT !.cmds = {}, !.depth.conn = 4, !.resets = TRUE]

\* Greylisting, for two client addresses.
Greylisting ==
  [Clients([Plain EXCEPT !.greylist = 2, !.says = Yahoo],
           {"c1"}, {At("valid", "d1"), At("nope", "d1")})
     EXCEPT !.ips = {"ip1", "ip2"}, !.resets = TRUE]

\* Every command and every kind of recipient, one connection.
Careful(tls) ==
  [Clients([Plain EXCEPT !.tls = tls, !.domainsPerTx = 1, !.txPerConn = 1,
                         !.chaos = {"drop", "temp"}, !.domains = {"d1", "d2"},
                         !.relayDenied = TRUE, !.catchAllDomains = {"d2"}],
           {"c1"},
           {At("valid", "d1"), At("nope", "d2"), At("ghost", "d1"), At("ghost", "d2"),
            At("valid", "d3"), At("blackhole", "d1"), At("reset", "d1")})
     EXCEPT !.cmds = Ask \cup {"STARTTLS", "RSET", "DATA"}, !.maxTxns = 2, !.maxRcpts = 3]

\* Operators that reset, swap profiles and set chaos under a running session.
Tight == [Plain EXCEPT !.maxConns = 1, !.rcptRate = Per(1, 2), !.cooldown = 2]
Loose == [Plain EXCEPT !.bounce = {"valid"}]
Operated ==
  [Clients(Tight, {"c1"}, {At("valid", "d1")})
     EXCEPT !.puts = {Tight, Loose}, !.chaos = {{}, {"temp"}}, !.depth.rcpt = 2,
            !.resets = TRUE]

Everyone == {Busy, Crowded, Greylisting, Operated}
              \cup {Careful(tls) : tls \in {"absent", "offered", "required", "broken"}}
=============================================================================
