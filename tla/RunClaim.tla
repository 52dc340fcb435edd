------------------------------ MODULE RunClaim ------------------------------
(***************************************************************************)
(* Who owns a run that is still `running`, and when that ownership may be  *)
(* taken away: dbabrain/lib/run_claim.py.                                  *)
(*                                                                         *)
(* The module is pure, as the code is: the store row and the reading of    *)
(* the process table are arguments.  A verdict is the set of facts callers *)
(* branch on, [reap, timed_out]; the sentence that explains it is left out.*)
(***************************************************************************)
EXTENDS Integers

CONSTANTS
    NoPid,      \* the claim names no process (absent, or not a number)
    NoHost,     \* the empty host name
    NoNode      \* the empty node identity

(***************************************************************************)
(* The metadata a run row carries.  `claim_pid`, `claim_host` and          *)
(* `claim_node` are written by a build that knows claims; `pid` and        *)
(* `host_name` are what the daemon has always written.                     *)
(***************************************************************************)
Metadata(Pid, Host, Node) ==
    [claim_pid : Pid \cup {NoPid}, claim_host : Host \cup {NoHost},
     claim_node : Node \cup {NoNode},
     pid : Pid \cup {NoPid}, host_name : Host \cup {NoHost}]

\* The claim a run writes beside the metadata it already has.
claim_fields(meta, pid, host, node) ==
    [meta EXCEPT !.claim_pid = pid, !.claim_host = host, !.claim_node = node]

\* str(data.get("host_name") or host_fallback or ""), the host an older build's pid lives on.
LegacyHost(meta, host_fallback) ==
    IF meta.host_name # NoHost THEN meta.host_name ELSE host_fallback

\* The (pid, host) recorded on a row: the claim first, then the older spelling, then nobody.
claim_owner(meta, host_fallback) ==
    CASE meta.claim_pid # NoPid -> [pid |-> meta.claim_pid, host |-> meta.claim_host]
      [] meta.claim_pid = NoPid /\ meta.pid # NoPid ->
             [pid |-> meta.pid, host |-> LegacyHost(meta, host_fallback)]
      [] OTHER -> [pid |-> NoPid, host |-> meta.claim_host]

\* The node is this one and the host name is one it no longer has.
LeftByAnEarlierHostOfThisNode(meta, host, this_host, this_node) ==
    /\ meta.claim_node # NoNode
    /\ meta.claim_node = this_node
    /\ host # NoHost
    /\ host # this_host

Keep == [reap |-> FALSE, timed_out |-> FALSE]
Reap == [reap |-> TRUE, timed_out |-> FALSE]

\* Altered: another host's run is given no grace.
owner_verdict_NoGrace(meta, this_host, elapsed, timeout, pid_alive, grace, this_node, host_fallback) ==
    LET owner == claim_owner(meta, host_fallback)
    IN  CASE owner.pid # NoPid /\ owner.host # NoHost /\ owner.host = this_host ->
                 IF pid_alive THEN Keep ELSE Reap
          [] owner.pid # NoPid /\ LeftByAnEarlierHostOfThisNode(meta, owner.host, this_host, this_node) ->
                 Reap
          [] OTHER -> IF timeout # 0 /\ elapsed >= timeout THEN Reap ELSE Keep

\* Altered: a row that names no owner is freed while it is within its timeout.
owner_verdict_WrongWay(meta, this_host, elapsed, timeout, pid_alive, grace, this_node, host_fallback) ==
    LET owner == claim_owner(meta, host_fallback)
    IN  CASE owner.pid # NoPid /\ owner.host # NoHost /\ owner.host = this_host ->
                 IF pid_alive THEN Keep ELSE Reap
          [] OTHER -> IF timeout # 0 /\ elapsed <= timeout THEN Reap ELSE Keep

(***************************************************************************)
(* The order of the returns is the order of the code: this host's pid is   *)
(* asked first, then an earlier host of this node, then another host, and  *)
(* a row that names no owner is judged on age alone.                       *)
(***************************************************************************)
owner_verdict(meta, this_host, elapsed, timeout, pid_alive, grace, this_node, host_fallback) ==
    LET owner == claim_owner(meta, host_fallback)
        named == owner.pid # NoPid
    IN  CASE named /\ owner.host # NoHost /\ owner.host = this_host ->
                 IF pid_alive THEN Keep ELSE Reap
          [] named /\ LeftByAnEarlierHostOfThisNode(meta, owner.host, this_host, this_node) ->
                 Reap
          [] /\ named /\ owner.host # NoHost /\ owner.host # this_host
             /\ ~LeftByAnEarlierHostOfThisNode(meta, owner.host, this_host, this_node) ->
                 IF timeout # 0 /\ elapsed >= timeout + grace THEN Reap ELSE Keep
          [] OTHER ->
                 IF timeout # 0 /\ elapsed >= timeout THEN Reap ELSE Keep

\* May this running row be closed?  `at_timeout` is the SQL-task reaper's rule.
reap_verdict(meta, this_host, elapsed, timeout, pid_alive, grace, this_node, host_fallback, at_timeout) ==
    LET verdict == owner_verdict(meta, this_host, elapsed, timeout, pid_alive, grace,
                                 this_node, host_fallback)
    IN  IF ~verdict.reap /\ at_timeout /\ timeout # 0 /\ elapsed >= timeout
        THEN [reap |-> TRUE, timed_out |-> TRUE]
        ELSE verdict

\* Altered: every row of this host is taken for a dead life's, its pid unasked.
startup_verdict_PidUnasked(meta, this_host, elapsed, timeout, pid_alive, grace, this_node, host_fallback) ==
    LET owner == claim_owner(meta, host_fallback)
    IN  IF owner.pid # NoPid /\ owner.host # NoHost /\ owner.host # this_host
        THEN reap_verdict(meta, this_host, elapsed, timeout, FALSE, grace, this_node,
                          host_fallback, FALSE)
        ELSE Reap

\* The same question asked by a daemon that has just started and owns no children.
startup_verdict(meta, this_host, elapsed, timeout, pid_alive, grace, this_node, host_fallback) ==
    LET owner == claim_owner(meta, host_fallback)
    IN  CASE owner.pid # NoPid /\ owner.host # NoHost /\ owner.host # this_host ->
                 reap_verdict(meta, this_host, elapsed, timeout, FALSE, grace, this_node,
                              host_fallback, FALSE)
          [] owner.pid # NoPid /\ owner.host \in {NoHost, this_host} ->
                 IF pid_alive THEN Keep ELSE Reap
          [] OTHER -> Reap
=============================================================================
