-------------------------------- MODULE ArpMap --------------------------------
(***************************************************************************)
(* What the ARP cache table promises: a map from addresses to MACs that    *)
(* keeps the target's entry, keeps every other entry until it is deleted   *)
(* or changed, and gains one entry at a time.  Two insertions at once may  *)
(* cost one other entry.  Once a deletion has met an insertion that was    *)
(* not complete, only the target's entry is safe.                          *)
(***************************************************************************)
EXTENDS Integers

CONSTANTS Ips, Target, NoMac

VARIABLES known, inserting, loose

Macs == Ips

Init ==
  /\ known = [ip \in Ips |-> IF ip = Target THEN Target ELSE NoMac]
  /\ inserting = 0
  /\ loose = FALSE

Begin == inserting' = inserting + 1 /\ UNCHANGED <<known, loose>>
End   == inserting > 0 /\ inserting' = inserting - 1 /\ UNCHANGED <<known, loose>>

Learn(ip) ==
  /\ inserting > 0
  /\ known[ip] = NoMac
  /\ known' = [known EXCEPT ![ip] = ip]
  /\ UNCHANGED <<inserting, loose>>

\* Two insertions append to the same last entry.
Replace(ip, other) ==
  /\ inserting > 1
  /\ ip # Target /\ known[ip] # NoMac
  /\ known' = [known EXCEPT ![ip] = NoMac, ![other] = IF other = ip THEN NoMac ELSE other]
  /\ UNCHANGED <<inserting, loose>>

\* Two insertions of one address leave two entries: the deletion of the first
\* uncovers the second.
Forget(ip) ==
  /\ ip # Target /\ known[ip] # NoMac
  /\ \E mac \in {NoMac, ip} : known' = [known EXCEPT ![ip] = mac]
  /\ loose' \in {loose, loose \/ inserting > 0}
  /\ UNCHANGED inserting

\* A deletion that uncovers nothing else: of an address that is in the list twice.
Overlap == inserting > 0 /\ loose' = TRUE /\ UNCHANGED <<known, inserting>>

Change(ip, mac) ==
  /\ known[ip] # NoMac
  /\ known' = [known EXCEPT ![ip] = mac]
  /\ UNCHANGED <<inserting, loose>>

\* The last entry may be any entry by now.
Astray ==
  /\ loose
  /\ known' \in [Ips -> Macs \cup {NoMac}] /\ known'[Target] = known[Target]
  /\ UNCHANGED <<inserting, loose>>

Changed == {ip \in Ips : known'[ip] # known[ip]}

Next ==
  \/ Begin \/ End \/ Overlap \/ Astray
  \/ \E ip \in Changed : \/ Learn(ip) \/ Forget(ip)
                         \/ \E other \in Ips : Replace(ip, other)
                         \/ \E mac \in Macs : Change(ip, mac)

Spec == Init /\ [][Next]_<<known, inserting, loose>>
===============================================================================
