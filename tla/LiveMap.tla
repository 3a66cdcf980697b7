------------------------------ MODULE LiveMap --------------------------------
(***************************************************************************)
(* The keyspace as a client may think of it: in each database a map whose  *)
(* keys vanish at their time.  When an expired key is really deleted does  *)
(* not show, a timeout is never moved, and every change but those named    *)
(* here is counted, so that it is saved and sent to the slaves.            *)
(***************************************************************************)
EXTENDS Integers

CONSTANTS Dbs, Horizon   \* Horizon: the last time a dump can hold

Forever == -1

VARIABLES
  live,     \* per database: key -> [value, until]
  now,
  counted   \* was the last step counted in server.dirty?

vars == <<live, now, counted>>

Lives(entry, t) == entry.until = Forever \/ t <= entry.until

Alone(map, keys) == [k \in keys |-> map[k]]

Init ==
  /\ live = [d \in Dbs |-> [k \in {} |-> Forever]]
  /\ now \in Nat /\ counted = FALSE

\* A counted command adds, replaces and removes keys.  What it leaves in place
\* keeps its timeout, what it writes has none.
Write ==
  /\ counted' = TRUE /\ UNCHANGED now
  /\ LET old == live
         new == live'
     IN /\ DOMAIN new = Dbs
        /\ \A d \in Dbs : \A k \in DOMAIN new[d] :
             \/ new[d][k].until = Forever
             \/ k \in DOMAIN old[d] /\ new[d][k] = old[d][k]

\* Reads, refused commands, cron: nothing to be seen.
Quiet == counted' = FALSE /\ UNCHANGED <<live, now>>

\* EXPIRE, which is not counted.
Expire ==
  /\ counted' = FALSE /\ UNCHANGED now
  /\ \E d \in Dbs : \E k \in DOMAIN live[d] \cap DOMAIN live'[d] :
       /\ live[d][k].until = Forever /\ live'[d][k].until > now
       /\ live' = [live EXCEPT ![d][k].until = live'[d][k].until]

\* SINTERSTORE of a set that does not exist deletes its target, uncounted.
LoseTarget ==
  /\ counted' = FALSE /\ UNCHANGED now
  /\ \E d \in Dbs : \E k \in DOMAIN live[d] :
       live' = [live EXCEPT ![d] = Alone(@, DOMAIN @ \ {k})]

\* FLUSHALL may end with the count it began with.
Flushall ==
  /\ counted' \in BOOLEAN /\ UNCHANGED now
  /\ live' = [d \in Dbs |-> [k \in {} |-> Forever]]

\* Time passes, perhaps while the server is down.  A restart loses the keys whose
\* time a dump cannot hold.
Elapse ==
  /\ counted' = FALSE /\ now' >= now
  /\ \E lost \in {[d \in Dbs |-> {}],
                  [d \in Dbs |-> {k \in DOMAIN live[d] : live[d][k].until > Horizon}]} :
       live' = [d \in Dbs |->
         Alone(live[d], {k \in DOMAIN live[d] \ lost[d] : Lives(live[d][k], now')})]

Next == Write \/ Quiet \/ Expire \/ LoseTarget \/ Flushall \/ Elapse

Spec == Init /\ [][Next]_vars

=============================================================================
