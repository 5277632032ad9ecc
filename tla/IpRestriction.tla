----------------------------- MODULE IpRestriction -----------------------------
(***************************************************************************)
(* The IP restriction filter: requests pass when their source address is   *)
(* on the allow list, or not on the deny list; one of the two is set.      *)
(***************************************************************************)
EXTENDS HttpStream

(* Addresses of two families with two bits each; entries of the lists are  *)
(* addresses, networks given by a prefix length, or text that is neither.  *)
Addresses == [family : {4, 6}, bits : 0..3]
Ip(family, bits) == [family |-> family, bits |-> bits]

(* Source addresses: missing, or in a form that does not parse, as well. *)
Sources == Addresses \cup {None, Ip(0, 0)}
Exact(ip) == [form |-> "ip", ip |-> ip]
Net(ip, len) == [form |-> "cidr", ip |-> ip, len |-> len]
Entries == {Exact(Ip(4, 1)), Net(Ip(4, 2), 1), Exact(Ip(6, 1)), Net(Ip(6, 0), 0), [form |-> "bad"]}

IpRawConfigs == [deny_addresses : SUBSET Entries, allow_addresses : SUBSET Entries]

Of(entries, form) == {e \in entries : e.form = form}
Ips(entries) == {e.ip : e \in Of(entries, "ip")}

(* FilterConfig::new: exactly one list, and nothing in it that is neither  *)
(* an address nor a network.                                               *)
New(raw) ==
    IF (raw.deny_addresses = {}) = (raw.allow_addresses = {})
         \/ Of(raw.deny_addresses \cup raw.allow_addresses, "bad") # {}
    THEN None
    ELSE [deny_addresses_exact |-> Ips(raw.deny_addresses),
          allow_addresses_exact |-> Ips(raw.allow_addresses),
          deny_addresses_cidr |-> Of(raw.deny_addresses, "cidr"),
          allow_addresses_cidr |-> Of(raw.allow_addresses, "cidr")]

(* The effective configuration, of the route or else of the filter, is one *)
(* that parsed.  source: the address attribute the request came with.      *)
IpConfigs ==
    {[kind |-> "ip", raw |-> raw, config |-> New(raw), source |-> None] :
        raw \in {r \in IpRawConfigs : New(r) # None}}

IpFilters ==
    [kind : {"ip"}, raw : IpRawConfigs, config : {New(raw) : raw \in IpRawConfigs},
     source : Sources]

IpMine(s) == filter[s].kind = "ip"

(* How many addresses share their first len bits. *)
Size(len) == IF len = 0 THEN 4 ELSE IF len = 1 THEN 2 ELSE 1

(* IpNet::contains: the same family and the same first len bits. *)
Contains(net, ip) ==
    /\ net.ip.family = ip.family
    /\ net.ip.bits \div Size(net.len) = ip.bits \div Size(net.len)

Matches(ip, exact, cidrs) == ip \in exact \/ \E net \in cidrs : Contains(net, ip)

Allowed(cfg, ip) ==
    /\ cfg.allow_addresses_exact # {} \/ cfg.allow_addresses_cidr # {} =>
         Matches(ip, cfg.allow_addresses_exact, cfg.allow_addresses_cidr)
    /\ ~Matches(ip, cfg.deny_addresses_exact, cfg.deny_addresses_cidr)

(* An address or port that is missing, or does not parse once port and     *)
(* brackets are cut off, is forbidden.                                     *)
on_request_headers(s) ==
    /\ IpMine(s)
    /\ \E end \in BOOLEAN, source \in Sources :
         LET f == [filter[s] EXCEPT !.source = source]
         IN  OnHeaders(s, "req", end,
               {IF source \in Addresses /\ Allowed(f.config, source)
                THEN Returns("Continue", f) ELSE Replies("Stop", 403, f)})

(* The addresses a list entry stands for. *)
Covered(e) ==
    IF e.form = "ip" THEN {e.ip}
    ELSE LET first == e.ip.bits - (e.ip.bits % Size(e.len))
         IN  {Ip(e.ip.family, b) : b \in first .. first + Size(e.len) - 1}

(* What may pass, from the lists as they were written. *)
IpApproved(f) ==
    /\ f.source \in Addresses
    /\ f.raw.allow_addresses # {} => \E e \in f.raw.allow_addresses : f.source \in Covered(e)
    /\ \A e \in f.raw.deny_addresses : f.source \notin Covered(e)
================================================================================
