--------------------------- MODULE MCPolicyEngine ---------------------------
(* A small instance of PolicyEngine.  Every value said of a merchant is a    *)
(* sequence, as a domain is.                                                 *)
EXTENDS PolicyEngine, TLC

Shop == <<"com", "shop">>
PayShop == <<"com", "shop", "pay">>
Zone == <<"io", "zone">>
ZoneApi == <<"io", "zone", "api">>

SmallValue == {Shop, PayShop, Zone, ZoneApi, <<"acct">>, <<"Zone">>, <<"Shop">>, <<"6011">>, <<"5734">>}

\* One merchant that lists its hosts, and one that owns its whole zone.
SmallDirectory ==
  {[hosts |-> {Shop}, include_subdomains |-> FALSE, mcc |-> <<"5734">>],
   [hosts |-> {Zone}, include_subdomains |-> TRUE, mcc |-> None]}

Says(domain, account, name, mcc) ==
  [domain |-> domain, psp_account |-> account, network_mid |-> None, onchain_address |-> None,
   name |-> name, mcc |-> mcc]

Number(n) == [type |-> "number", value |-> n]

Pays(merchant, source) ==
  [amount |-> 1, currency |-> "USD", category |-> "food", attested |-> Number(1),
   merchant |-> merchant, source |-> source]

SmallActions ==
  {Pays(Says(None, None, None, None), "agent"),            \* nothing is said
   Pays(Says(Shop, None, None, None), "agent"),            \* a listed host
   Pays(Says(PayShop, None, None, None), "agent"),         \* a host beside it
   Pays(Says(ZoneApi, None, <<"Zone">>, None), "agent"),   \* a host of an owned zone
   Pays(Says(Shop, <<"acct">>, None, None), "agent"),      \* an account is claimed
   Pays(Says(Shop, <<"acct">>, None, None), "rail"),       \* and one the rail vouches for
   Pays(Says(None, <<"acct">>, None, <<"6011">>), "rail"),
   Pays(Says(None, None, <<"Shop">>, None), "agent"),      \* a name
   [Pays(Says(Shop, None, None, None), "agent") EXCEPT !.currency = "EUR"],
   [Pays(Says(Shop, None, None, None), "agent") EXCEPT !.category = "games"],
   [Pays(Says(Shop, None, None, None), "agent") EXCEPT !.category = None],
   [Pays(Says(Shop, None, None, None), "agent") EXCEPT !.attested = None],
   [Pays(Says(Shop, None, None, None), "agent") EXCEPT !.attested = Number(3)]}

\* The turn of 2020, which ends in a 53rd week, and of 2024, which does not.
SmallMoments ==
  [day : {18624, 18627, 18631} \cup {20087}, minute : {0, 2}] \cup [day : {20089}, minute : {1, 3}]

Lists(scheme, value) == [scheme |-> scheme, value |-> value]
Hours(days, from, to) == {[days_of_week |-> days, start |-> {from}, end |-> {to}]}

Base ==
  [currency |-> "USD", expires_at |-> 30000, per_transaction_max |-> {2},
   cumulative_limits |-> {[window |-> "week", max_amount |-> 3, max_count |-> {}]},
   merchants |-> [allow |-> <<Lists("domain", Shop)>>, deny |-> {}, unlisted |-> "STEP_UP",
                  step_up_on_first_use |-> FALSE],
   categories |-> [allow |-> {"food"}, deny |-> {}, deny_mcc |-> {}, unlisted |-> "ALLOW"],
   step_up |-> [above_amount |-> {}, above_cumulative |-> {}],
   time_window |-> {}, constraints |-> {}]

SmallPolicies ==
  {Base,
   [Base EXCEPT !.merchants = [allow |-> <<>>, deny |-> {Lists("domain", PayShop)},
                               unlisted |-> "ALLOW", step_up_on_first_use |-> TRUE],
                !.cumulative_limits = {[window |-> "month", max_amount |-> 4, max_count |-> {1}]}],
   [Base EXCEPT !.merchants.unlisted = "DENY",
                !.categories = [allow |-> {"food"}, deny |-> {"games"}, deny_mcc |-> {<<"5734">>},
                                unlisted |-> "STEP_UP"],
                !.expires_at = 20088],
   [Base EXCEPT !.merchants.unlisted = "ALLOW",
                !.time_window = Hours({0, 1, 4}, 3, 0),
                !.step_up = [above_amount |-> {1}, above_cumulative |-> {[window |-> "day", amount |-> 3]}]],
   [Base EXCEPT !.time_window = Hours({}, 1, 2),
                !.constraints = {[key |-> "seats", operator |-> "lte", value |-> Number(2), required |-> TRUE]},
                !.categories.unlisted = "DENY"],
   \* Not coherent: a merchant is both allowed and denied.
   [Base EXCEPT !.merchants.deny = {Lists("domain", Shop)}]}

=============================================================================
