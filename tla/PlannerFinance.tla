---------------------------- MODULE PlannerFinance ----------------------------
(***************************************************************************)
(* The family's money (planner/internal/store/finance.go,                  *)
(* finance_import.go, finance_tags.go, finance_labels.go,                  *)
(* finance_wallet.go, api/finance.go, cmd/planner/financecmd.go).          *)
(*                                                                         *)
(* Bank exports are imported, overlapping each other.  People correct what *)
(* the program thinks of an item (fixed, income, not spending, its name    *)
(* and category), tag single transactions, and keep a wallet of local      *)
(* money whose uses they write down themselves.  The overview decides what *)
(* every transaction is and splits the spending of a month into fixed,     *)
(* unexpected and ordinary.                                                *)
(*                                                                         *)
(* A content is a model value with the facts the regular expressions find  *)
(* in it; a time is a month and a minute.  Snapshots of assets, goals and  *)
(* the monthly plan are sums over what is modelled here and are left out.  *)
(***************************************************************************)
EXTENDS Integers, FiniteSets, FiniteSetsExt, Sequences, SequencesExt

CONSTANTS
  People,
  Contents,       \* content -> [key, facts, brand]; key is finKey's
  Exports,        \* set of [owner, rows]; a row is [at, type, content, cat, amount, method]
  LabelChoices,   \* set of [label, cat] a person may give an item
  Uses,           \* set of [at, content, amount] written down for a wallet
  ThisMonth, MonthLength,
  Clients,        \* requests that set a wallet's balance and may overlap
  Items,          \* keys that people have an opinion on: a bound
  TagIds, MaxWallets, MaxUses, MaxFinChanges   \* bounds

VARIABLES
  tx,             \* fin_tx: id -> [owner, row, n], n of equal rows in a file
  fixed,          \* fin_fixed: key -> 1 fixed, 0 unexpected, -1 ordinary
  income,         \* fin_income: key -> BOOLEAN
  notSpend,       \* fin_not_spend: keys
  labels,         \* fin_labels: key -> [label, cat]
  finTags,        \* fin_tags: ids
  links,          \* fin_tag_links: {<<key, tag>>}
  txTags,         \* fin_tx_tags: {<<ref, tag>>}
  migration,      \* finMigrateTxTags: [pc, add]
  wallets,        \* id -> [owner, base, baseAt]
  uses,           \* fin_wallet_spends: id -> [wallet, at, content, amount]
  asking,         \* client -> the balance it sets, and the wallet it has found, or 0
  dropping,       \* the use whose tags have just been deleted
  untouched,      \* history: refs nobody has tagged since they were stored
  imported,       \* history: exports imported
  finNow, finChanges

finVars == <<tx, fixed, income, notSpend, labels, finTags, links, txTags, migration, wallets, uses, asking,
             dropping, untouched, imported, finNow, finChanges>>

Nobody == "nobody"
Unasked == [owner |-> Nobody, base |-> 0, baseAt |-> 0, wallet |-> 0]
NoLabel == [label |-> "", cat |-> ""]
MonthOf(at) == at \div MonthLength
NextRow(f) == IF DOMAIN f = {} THEN 1 ELSE Max(DOMAIN f) + 1
Plus(f, k, v) == [x \in DOMAIN f \cup {k} |-> IF x = k THEN v ELSE f[x]]
Minus(f, ks) == [x \in DOMAIN f \ ks |-> f[x]]
Has(c, fact) == c # "" /\ fact \in Contents[c].facts

\* The value at len/2 of the values of f, sorted.
median(f) ==
  LET half == Cardinality(DOMAIN f) \div 2
      middle(i) == /\ Cardinality({j \in DOMAIN f : f[j] < f[i]}) <= half
                   /\ Cardinality({j \in DOMAIN f : f[j] <= f[i]}) > half
  IN IF DOMAIN f = {} THEN 0 ELSE f[CHOOSE i \in DOMAIN f : middle(i)]

FinanceInit ==
  /\ tx = <<>> /\ fixed = <<>> /\ income = <<>> /\ notSpend = {} /\ labels = <<>>
  /\ finTags = TagIds /\ links = {<<CHOOSE k \in Items : TRUE, CHOOSE t \in TagIds : TRUE>>} /\ txTags = {}
  /\ migration = [pc |-> "no", add |-> {}]
  /\ wallets = <<>> /\ uses = <<>> /\ asking = [c \in Clients |-> Unasked] /\ dropping = 0
  /\ untouched = {} /\ imported = {} /\ finNow = ThisMonth * MonthLength /\ finChanges = 0

FinChanged == finChanges < MaxFinChanges /\ finChanges' = finChanges + 1

-----------------------------------------------------------------------------
(***************************************************************************)
(* Import.                                                                 *)
(***************************************************************************)

\* Mutant of finTxHash: equal rows of a file have one hash.
finTxHashPlain(rows, i) == 1

\* Category and memo are not looked at.
Hashed(row) == [row EXCEPT !.cat = ""]

\* The number of a row among the equal ones of its file.
finTxHash(rows, i) == Cardinality({j \in 1..i : Hashed(rows[j]) = Hashed(rows[i])})

\* POST /api/finance/import with apply: what the person's table does not hold,
\* the rows `new' of the export, get the next ids.
FinanceImport(e) ==
  LET row(i) == [owner |-> e.owner, row |-> e.rows[i], n |-> finTxHash(e.rows, i)]
      hash(r) == [r EXCEPT !.row = Hashed(@)]
      stored == {hash(tx[x]) : x \in DOMAIN tx}
      id(new, i) == NextRow(tx) - 1 + Cardinality({j \in new : j <= i})
  IN /\ FinChanged
     /\ \E new \in {{i \in DOMAIN e.rows : /\ hash(row(i)) \notin stored
                                             /\ \A j \in 1..(i - 1) : hash(row(j)) # hash(row(i))}} :
          /\ tx' = [x \in DOMAIN tx \cup {id(new, i) : i \in new} |->
                      IF x \in DOMAIN tx THEN tx[x] ELSE row(CHOOSE i \in new : id(new, i) = x)]
          /\ untouched' = untouched \cup {<<"t", id(new, i)>> : i \in new}
     /\ imported' = imported \cup {e}
     /\ UNCHANGED <<fixed, income, notSpend, labels, finTags, links, txTags, migration, wallets, uses, asking,
                    dropping, finNow>>

-----------------------------------------------------------------------------
(***************************************************************************)
(* Corrections by people, one statement or one transaction each.           *)
(***************************************************************************)

Corrected == UNCHANGED <<tx, finTags, links, txTags, migration, wallets, uses, asking, dropping, untouched, imported, finNow>>

FinanceSetSpend(k, spend) ==
  /\ FinChanged /\ notSpend' = IF spend THEN notSpend \ {k} ELSE notSpend \cup {k}
  /\ UNCHANGED <<fixed, income, labels>> /\ Corrected

FinanceSetIncome(k, v) ==
  /\ FinChanged /\ income' = IF v = "auto" THEN Minus(income, {k}) ELSE Plus(income, k, v = "yes")
  /\ UNCHANGED <<fixed, notSpend, labels>> /\ Corrected

\* FinanceSetFixed, and FinanceSetRegular with -1.
FinanceSetFixed(k, v) ==
  /\ FinChanged /\ fixed' = IF v = 2 THEN Minus(fixed, {k}) ELSE Plus(fixed, k, v)
  /\ UNCHANGED <<income, notSpend, labels>> /\ Corrected

FinanceSetLabel(k, l) ==
  /\ FinChanged /\ labels' = IF l = NoLabel THEN Minus(labels, {k}) ELSE Plus(labels, k, l)
  /\ UNCHANGED <<fixed, income, notSpend>> /\ Corrected

-----------------------------------------------------------------------------
(***************************************************************************)
(* Tags.                                                                   *)
(***************************************************************************)

Tagging == UNCHANGED <<tx, fixed, income, notSpend, labels, wallets, uses, asking, dropping, imported, finNow>>
Refs == {<<"t", x>> : x \in DOMAIN tx} \cup {<<"w", x>> : x \in DOMAIN uses}

\* References are taken from the request; nothing says they exist.
FinanceSetTxTags(r, ids) ==
  /\ FinChanged /\ ids \subseteq finTags
  /\ txTags' = {p \in txTags : p[1] # r} \cup {<<r, t>> : t \in ids}
  /\ untouched' = untouched \ {r}
  /\ UNCHANGED <<finTags, links, migration>> /\ Tagging

FinanceSetTags(k, ids) ==
  /\ FinChanged /\ ids \subseteq finTags
  /\ links' = {p \in links : p[1] # k} \cup {<<k, t>> : t \in ids}
  /\ UNCHANGED <<finTags, txTags, migration, untouched>> /\ Tagging

\* planner finance tag --name --apply: added to the tags there are.
FinanceTagByName(c, t) ==
  LET found == {<<"t", x>> : x \in {y \in DOMAIN tx : tx[y].row.content = c}}
               \cup {<<"w", x>> : x \in {y \in DOMAIN uses : uses[y].content = c}}
  IN /\ FinChanged /\ t \in finTags
     /\ txTags' = txTags \cup (found \X {t}) /\ untouched' = untouched \ found
     /\ UNCHANGED <<finTags, links, migration>> /\ Tagging

FinanceCreateTag(t) ==
  /\ FinChanged /\ t \notin finTags /\ finTags' = finTags \cup {t}
  /\ UNCHANGED <<links, txTags, migration, untouched>> /\ Tagging

FinanceDeleteTag(t) ==
  /\ FinChanged /\ t \in finTags /\ finTags' = finTags \ {t}
  /\ links' = {p \in links : p[2] # t} /\ txTags' = {p \in txTags : p[2] # t}
  /\ UNCHANGED <<migration, untouched>> /\ Tagging

KeyOfRef(r) == Contents[IF r[1] = "t" THEN tx[r[2]].row.content ELSE uses[r[2]].content].key

\* finMigrateTxTags, in the first overview: the tags of items and the
\* transactions there are ...
MigrateRead ==
  /\ migration.pc = "no"
  /\ migration' = [pc |-> "read", add |-> {p \in Refs \X finTags : <<KeyOfRef(p[1]), p[2]>> \in links}]
  /\ UNCHANGED <<finTags, links, txTags, untouched, finChanges>> /\ Tagging

\* ... are stored, unless a tag is gone since: the next overview tries again.
MigrateWrite ==
  /\ migration.pc = "read"
  /\ IF \A p \in migration.add : p[2] \in finTags
       THEN /\ txTags' = txTags \cup migration.add
            /\ untouched' = untouched \ {p[1] : p \in migration.add}
            /\ migration' = [pc |-> "done", add |-> {}]
       ELSE migration' = [pc |-> "no", add |-> {}] /\ UNCHANGED <<txTags, untouched>>
  /\ UNCHANGED <<finTags, links, finChanges>> /\ Tagging

-----------------------------------------------------------------------------
(***************************************************************************)
(* The wallet.                                                             *)
(***************************************************************************)

Spending == UNCHANGED <<tx, fixed, income, notSpend, labels, finTags, links, migration, imported>>

\* FinanceSetWalletBalance: the wallet of the person is looked for,
WalletAsked(c, o, b) ==
  LET mine == {w \in DOMAIN wallets : wallets[w].owner = o}
  IN /\ FinChanged /\ asking[c] = Unasked
     /\ asking' = [asking EXCEPT ![c] =
          [owner |-> o, base |-> b, baseAt |-> finNow, wallet |-> IF mine = {} THEN 0 ELSE Min(mine)]]
     /\ UNCHANGED <<wallets, txTags, uses, dropping, untouched, finNow>> /\ Spending

\* created if there is none,
WalletCreated(c) ==
  /\ asking[c].owner # Nobody /\ asking[c].wallet = 0 /\ NextRow(wallets) <= MaxWallets
  /\ wallets' = Plus(wallets, NextRow(wallets),
                     [owner |-> asking[c].owner, base |-> asking[c].base, baseAt |-> asking[c].baseAt])
  /\ asking' = [asking EXCEPT ![c].wallet = NextRow(wallets)]
  /\ UNCHANGED <<txTags, uses, dropping, untouched, finNow, finChanges>> /\ Spending

\* and set by its id, whoever has the id by then.
WalletSet(c) ==
  LET w == asking[c].wallet
  IN /\ w # 0
     /\ wallets' = IF w \in DOMAIN wallets
          THEN [wallets EXCEPT ![w].base = asking[c].base, ![w].baseAt = asking[c].baseAt] ELSE wallets
     /\ asking' = [asking EXCEPT ![c] = Unasked]
     /\ UNCHANGED <<txTags, uses, dropping, untouched, finNow, finChanges>> /\ Spending

\* The uses of a wallet go with it, their tags stay.
FinanceDeleteWallet(w) ==
  /\ FinChanged
  /\ wallets' = Minus(wallets, {w}) /\ uses' = Minus(uses, {u \in DOMAIN uses : uses[u].wallet = w})
  /\ UNCHANGED <<txTags, asking, dropping, untouched, finNow>> /\ Spending

\* Nothing later than five minutes from now.
FinanceAddWalletSpend(w, u) ==
  /\ FinChanged /\ u.at <= finNow + 5 /\ NextRow(uses) <= MaxUses
  /\ uses' = Plus(uses, NextRow(uses), [wallet |-> w, at |-> u.at, content |-> u.content, amount |-> u.amount])
  /\ untouched' = untouched \cup {<<"w", NextRow(uses)>>}
  /\ UNCHANGED <<txTags, wallets, asking, dropping, finNow>> /\ Spending

FinanceUpdateWalletSpend(i, u) ==
  /\ FinChanged /\ u.at <= finNow + 5
  /\ uses' = [uses EXCEPT ![i] = [wallet |-> @.wallet, at |-> u.at, content |-> u.content, amount |-> u.amount]]
  /\ UNCHANGED <<txTags, wallets, asking, dropping, untouched, finNow>> /\ Spending

\* FinanceDeleteWalletSpend: first the tags, then the use.
DropTags(i) ==
  /\ FinChanged /\ dropping = 0
  /\ txTags' = {p \in txTags : p[1] # <<"w", i>>} /\ dropping' = i
  /\ UNCHANGED <<wallets, uses, asking, untouched, finNow>> /\ Spending

DropUse ==
  /\ dropping # 0
  /\ uses' = Minus(uses, {dropping}) /\ dropping' = 0
  /\ UNCHANGED <<txTags, wallets, asking, untouched, finNow, finChanges>> /\ Spending

FinTick ==
  /\ finNow' \in {u.at : u \in Uses} /\ finNow' > finNow
  /\ UNCHANGED <<txTags, wallets, uses, asking, dropping, untouched, finChanges>> /\ Spending

FinanceNext ==
  \/ \E e \in Exports : FinanceImport(e)
  \/ \E k \in Items, b \in BOOLEAN : FinanceSetSpend(k, b)
  \/ \E k \in Items, v \in {"auto", "yes", "no"} : FinanceSetIncome(k, v)
  \/ \E k \in Items, v \in -1..2 : FinanceSetFixed(k, v)
  \/ \E k \in Items, l \in LabelChoices : FinanceSetLabel(k, l)
  \/ \E r \in Refs, ids \in SUBSET TagIds : FinanceSetTxTags(r, ids)
  \/ \E k \in Items, ids \in SUBSET TagIds : FinanceSetTags(k, ids)
  \/ \E c \in Items, t \in TagIds : FinanceTagByName(c, t)
  \/ \E t \in TagIds : FinanceCreateTag(t) \/ FinanceDeleteTag(t)
  \/ MigrateRead \/ MigrateWrite
  \/ \E c \in Clients, o \in People, b \in {0, 1000} : WalletAsked(c, o, b)
  \/ \E c \in Clients : WalletCreated(c) \/ WalletSet(c)
  \/ \E w \in DOMAIN wallets : FinanceDeleteWallet(w)
  \/ \E w \in DOMAIN wallets, u \in Uses : FinanceAddWalletSpend(w, u)
  \/ \E i \in DOMAIN uses, u \in Uses : FinanceUpdateWalletSpend(i, u)
  \/ \E i \in DOMAIN uses : DropTags(i)
  \/ DropUse \/ FinTick

-----------------------------------------------------------------------------
(***************************************************************************)
(* The overview of one person, or of all of them together.                 *)
(***************************************************************************)

\* Transactions of the last thirteen months and uses of wallets, under the
\* names and categories people gave them; pos is their order in time.
OverviewRows(who) ==
  LET from == (ThisMonth - 13) * MonthLength
      ledger == {[ref |-> <<"t", x>>, owner |-> tx[x].owner, row |-> tx[x].row, wallet |-> FALSE] : x \in DOMAIN tx}
      pocket == {[ref |-> <<"w", x>>, owner |-> wallets[uses[x].wallet].owner, wallet |-> TRUE,
                  row |-> [at |-> uses[x].at, type |-> "out", content |-> uses[x].content, cat |-> "wallet",
                           amount |-> -uses[x].amount, method |-> "wallet"]] : x \in DOMAIN uses}
      mine == {r \in ledger \cup pocket : r.owner \in who /\ r.row.at >= from}
      before(p, q) == \/ p.row.at < q.row.at
                      \/ p.row.at = q.row.at /\ ~p.wallet /\ q.wallet
                      \/ p.row.at = q.row.at /\ p.wallet = q.wallet /\ p.ref[2] < q.ref[2]
      named(r) == LET k == Contents[r.row.content].key
                      l == IF k \in DOMAIN labels THEN labels[k] ELSE NoLabel
                  IN [pos |-> 1 + Cardinality({q \in mine : before(q, r)}), kind |-> "",
                      owner |-> r.owner, at |-> r.row.at, type |-> r.row.type, content |-> r.row.content, key |-> k,
                      label |-> IF l.label # "" THEN l.label ELSE r.row.content,
                      cat |-> IF l.cat # "" THEN l.cat ELSE r.row.cat,
                      amount |-> r.row.amount, method |-> r.row.method, wallet |-> r.wallet]
  IN {named(r) : r \in mine}

First(rows) == CHOOSE r \in rows : \A q \in rows : r.pos <= q.pos

\* Mutant of Partner: the latest that is free.
PartnerLatest(free) == CHOOSE r \in free : \A q \in free : q.pos <= r.pos

\* Of the transfers that fit, the first that is free.
Partner(free) == First(free)

\* finPairs: transfers of one amount, out and in within ten minutes, as
\* pairs <<in, out>>; in order of the incoming ones.
finPairs(rows) ==
  LET fits(i, o) == o.type = "move" /\ o.amount = -i.amount /\ o.at - i.at \in -10..10
      pair(i, done) == LET free == {o \in rows : fits(i, o) /\ \A p \in done : p[2] # o}
                       IN IF i.type = "move" /\ i.amount > 0 /\ free # {} THEN {<<i, Partner(free)>>} ELSE {}
      P[n \in 0..Cardinality(rows)] ==
        IF n = 0 THEN {}
        ELSE LET done == P[n - 1] IN done \cup pair(CHOOSE r \in rows : r.pos = n, done)
  IN P[Cardinality(rows)]

\* Mutant of walletCharge: only charges since the balance was set.
walletChargeByDate(rows, r) ==
  Has(r.content, "wallet") /\ \E w \in DOMAIN wallets : wallets[w].owner = r.owner /\ r.at > wallets[w].baseAt

\* Money moved to the wallet, since its balance was set or in a month whose
\* uses are written down.
walletCharge(rows, r) ==
  /\ Has(r.content, "wallet")
  /\ \E w \in DOMAIN wallets :
       /\ wallets[w].owner = r.owner
       /\ r.at > wallets[w].baseAt \/ \E q \in rows : q.wallet /\ q.owner = r.owner /\ MonthOf(q.at) = MonthOf(r.at)

\* The bill of a card, or money put on a pay service, whose payments are there.
PaidTwice(rows, r) ==
  /\ Has(r.content, "bill") \/ Has(r.content, "charge")
  /\ \E q \in rows : q.type = "out" /\ q.method = Contents[r.content].brand

\* What a row is, before people's opinions on spending and income.
FileKind(rows, pairs, r) ==
  LET paired == \E p \in pairs : r \in {p[1], p[2]}
      toSavingAcct == \E p \in pairs : p[2] = r /\ p[1].method = "savings"
      named == Has(r.content, "save") \/ Has(r.label, "save")
      saving == r.cat \in {"savings", "investment"} \/ named
      parking == Has(r.content, "park") /\ ~Has(r.content, "save")
      out == r.amount < 0
  IN IF r.type = "in" THEN "in"
     ELSE IF r.type = "out" THEN IF out /\ (named \/ r.cat = "insurance") THEN "save" ELSE "spend"
     ELSE IF paired /\ out /\ (saving \/ toSavingAcct) THEN "save"
     ELSE IF out /\ (walletCharge(rows, r) \/ PaidTwice(rows, r)) THEN "skip"
     ELSE IF paired \/ Has(r.content, "family") \/ parking THEN "skip"
     ELSE IF r.amount > 0 THEN "in_other"
     ELSE IF saving THEN "save"
     ELSE "spend"

LastMonths(n) == (ThisMonth - n)..(ThisMonth - 1)
InMonths(rows, ms) == {r \in rows : MonthOf(r.at) \in ms}
SumOver(h, S) == MapThenSumSet(LAMBDA x : h[x], S)
Total(rows) == SumOver([r \in rows |-> IF r.amount < 0 THEN -r.amount ELSE r.amount], rows)
MonthlyMedian(rows, ms) == median([m \in ms |-> Total(InMonths(rows, {m}))])
MonthsOf(rows) == {MonthOf(r.at) : r \in rows}

\* Sources of income: items, those given one name taken together.  Typed as
\* income or regular, unless the first item with an opinion says otherwise.
IncomeKeys(rows) ==
  LET ins == {r \in rows : r.kind \in {"in", "in_other"} /\ r.amount > 0}
      name(k) == IF k \in DOMAIN labels THEN labels[k].label ELSE ""
      group(r) == {q \in ins : q.key = r.key \/ (name(q.key) # "" /\ name(q.key) = name(r.key))}
      isIncome(g) ==
        LET year == InMonths(g, LastMonths(12))
            recurring == /\ Cardinality(MonthsOf(year)) >= 3 /\ MonthlyMedian(year, MonthsOf(year)) >= 300000
                         /\ ~Has(First(g).label, "own")
            opinions == {r \in g : r.key \in DOMAIN income}
        IN IF opinions # {} THEN income[First(opinions).key]
           ELSE recurring \/ \E r \in g : r.kind = "in"
  IN {r.key : r \in {q \in ins : isIncome(group(q))}}

\* The rows, each with what it is in the end.
Classified(rows) ==
  LET pairs == finPairs(rows)
      file == {[r EXCEPT !.kind = FileKind(rows, pairs, r)] : r \in rows}
      spent == {[r EXCEPT !.kind = IF @ \in {"spend", "save"} /\ r.key \in notSpend THEN "skip" ELSE @] : r \in file}
      sources == IncomeKeys(spent)
  IN {[r EXCEPT !.kind = IF @ \notin {"in", "in_other"} THEN @ ELSE IF r.key \in sources THEN "in" ELSE "in_other"] : r \in spent}

\* Fixed items: in three of the last six months, about the same each month or
\* of a kind that is fixed anyway; a person's opinion goes first.
FixedKeys(rows) ==
  LET outs == {r \in InMonths(rows, LastMonths(6)) : r.kind \in {"spend", "save"} /\ r.amount < 0}
      auto(k) ==
        LET mine == {r \in outs : r.key = k}
            med == MonthlyMedian(mine, MonthsOf(mine))
            steady == \A m \in MonthsOf(mine) : 4 * (Total(InMonths(mine, {m})) - med) \in -med..med
        IN /\ Cardinality(MonthsOf(mine)) >= 3
           /\ steady \/ First(mine).kind = "save" \/ First(mine).cat = "home" \/ Has(First(mine).label, "insurance")
  IN {k \in {r.key : r \in outs} : IF k \in DOMAIN fixed THEN fixed[k] = 1 ELSE auto(k)}

\* Payments that are not fixed.
Free(rows, fixedKeys) == {r \in rows : r.kind = "spend" /\ r.amount < 0 /\ r.key \notin fixedKeys}

\* What a person says of an item: 2 is nothing.
Opinion(k) == IF k \in DOMAIN fixed THEN fixed[k] ELSE 2

\* A payment of a category in a month is large against the single ones of the
\* last six, its category is new, or the month is over the usual.
StandsOut(free, m, amount, c) ==
  LET others == LastMonths(6) \ {m}
      ofCat == {r \in free : r.cat = c}
      single == median([r \in InMonths(ofCat, others) |-> -r.amount])
      med == MonthlyMedian(ofCat, others)
      cur == Total(InMonths(ofCat, {m}))
  IN \/ InMonths(ofCat, others) = {}
     \/ single > 0 /\ -amount >= single * 3
     \/ med > 0 /\ cur >= (med * 3) \div 2 /\ cur - med >= 50000

\* Spending of a month that is neither fixed nor a card's bill and either
\* stands out or was moved here by a person.
Unexpected(rows, fixedKeys, m) ==
  LET free == Free(rows, fixedKeys)
  IN {r \in InMonths(free, {m}) :
        /\ ~Has(r.content, "bill")
        /\ \/ Opinion(r.key) = 0
           \/ Opinion(r.key) # -1 /\ -r.amount >= 100000 /\ StandsOut(free, m, r.amount, r.cat)}

\* Mutant of Listed: by the item alone.
ListedByItem(p, q) == p.key = q.key

\* The rows the overview takes for the same.
Listed(p, q) == p.key = q.key /\ p.at = q.at /\ p.amount = q.amount

\* Ordinary spending: the rest.
Regular(rows, fixedKeys, m) ==
  LET shown == Unexpected(rows, fixedKeys, m)
  IN {r \in InMonths(Free(rows, fixedKeys), {m}) : \A q \in shown : ~Listed(r, q)}

\* FinMonth: what was spent less the fixed part of it.
Variable(rows, fixedKeys, m) ==
  LET spent == {r \in InMonths(rows, {m}) : r.kind = "spend" /\ r.key \notin fixedKeys}
  IN SumOver([r \in spent |-> -r.amount], spent)

-----------------------------------------------------------------------------
(***************************************************************************)
(* Properties.                                                             *)
(***************************************************************************)

Views == {{o} : o \in People} \cup {People}

\* What is listed as the same has one category.
OneCategory(rows) ==
  \A p, q \in rows :
    p.key = q.key /\ p.at = q.at /\ p.amount = q.amount
      => p.cat = q.cat /\ (Has(p.content, "bill") <=> Has(q.content, "bill"))

\* Whatever people correct, the lists of a month and its figures say the same:
\* what is not fixed of the spending is the unexpected and the ordinary
\* payments shown, less the refunds (financeOverview's Variable, Unexpected
\* and Regular), unless an item has two payments of one moment and amount that
\* are of different categories.
ListsAddUp ==
  \A v \in Views :
    LET rows == Classified(OverviewRows(v))
        keys == FixedKeys(rows)
    IN OneCategory(rows) => \A m \in {ThisMonth - 1, ThisMonth} :
         Variable(rows, keys, m)
           = Total(Unexpected(rows, keys, m)) + Total(Regular(rows, keys, m))
             - Total({r \in InMonths(rows, {m}) : r.kind = "spend" /\ r.amount > 0 /\ r.key \notin keys})

\* Local money is spent once: in a month whose uses are written down, the
\* transfer that charged the wallet is not spending too (walletCharge).
SpentOnce ==
  \A v \in Views : \A r, q \in {x \in Classified(OverviewRows(v)) : x.kind = "spend"} :
    ~ /\ r.wallet /\ q.type = "move" /\ q.amount < 0 /\ Has(q.content, "wallet")
      /\ r.owner = q.owner /\ MonthOf(r.at) = MonthOf(q.at)

\* However exports overlap and in whatever order they come, a person's table
\* holds a transaction as often as the export that has it most often, under
\* whatever categories (FinanceImport, finTxHash).
ImportUnion ==
  \A o \in People : LET mine == {e \in imported : e.owner = o} IN
    \A r \in UNION {{Hashed(e.rows[i]) : i \in DOMAIN e.rows} : e \in mine} :
      Cardinality({x \in DOMAIN tx : tx[x].owner = o /\ Hashed(tx[x].row) = r})
        = Max({Cardinality({i \in DOMAIN e.rows : Hashed(e.rows[i]) = r}) : e \in mine})

\* A transaction or use that is stored has no tags until somebody tags it;
\* finance_tags.go: new transactions inherit none.
InheritsNothing == \A p \in txTags : p[1] \notin untouched
====
