----------------------------- MODULE LiveProofs -----------------------------
(***************************************************************************)
(* What a release does to the world, proved for every list of assets and   *)
(* hooks and any number of runs, kills and lost answers.                   *)
(*                                                                         *)
(* LiveInv keeps, for every object, what the world holds of it, what the   *)
(* newest run believes of it and what the requests in flight may still do  *)
(* to it.  Success is no lie because a run observed every object that it   *)
(* needed; the refinement because each request needs what precedes it.     *)
(***************************************************************************)
EXTENDS LiveRefinement, TLAPS, SequenceTheorems

(***************************************************************************)
(* The objects, in publication order.                                      *)
(***************************************************************************)
Kinds == {"tag", "draft", "package", "docs", "asset", "finalize", "notify"}
ItemType == [kind : Kinds, name : Assets \cup Hooks \cup {"-"}]
Count == Len(AssetList)
Final == 5 + Count

LEMMA Joined ==
  ASSUME NEW S, NEW s \in Seq(S), NEW t \in Seq(S)
  PROVE  /\ s \o t \in Seq(S) /\ Len(s \o t) = Len(s) + Len(t)
         /\ \A k \in 1 .. Len(s) : (s \o t)[k] = s[k]
         /\ \A k \in 1 .. Len(t) : (s \o t)[Len(s) + k] = t[k]
<1>1. Len(s) \in Nat /\ Len(t) \in Nat
  BY LenProperties
<1>2. /\ s \o t \in Seq(S) /\ Len(s \o t) = Len(s) + Len(t)
      /\ \A i \in 1 .. Len(s) + Len(t) :
           (s \o t)[i] = IF i <= Len(s) THEN s[i] ELSE t[i - Len(s)]
  BY ConcatProperties
<1>3. ASSUME NEW k \in 1 .. Len(t)
      PROVE  (s \o t)[Len(s) + k] = t[k]
  <2>1. Len(s) + k \in 1 .. Len(s) + Len(t) /\ ~(Len(s) + k <= Len(s))
        /\ Len(s) + k - Len(s) = k
    BY <1>1
  <2>. QED  BY <1>2, <2>1
<1>4. ASSUME NEW k \in 1 .. Len(s)
      PROVE  (s \o t)[k] = s[k]
  BY <1>1, <1>2
<1>. QED  BY <1>2, <1>3, <1>4

LEMMA ListsTyped ==
  /\ AssetList \in [1 .. Count -> Assets] /\ Count \in Nat
  /\ HookList \in [1 .. Len(HookList) -> [id : Hooks, required : BOOLEAN]]
  /\ Len(HookList) \in Nat
<1>1. AssetList \in Seq(Assets) /\ HookList \in Seq([id : Hooks, required : BOOLEAN])
  BY LiveAssumption
<1>. QED  BY <1>1, LenProperties DEF Count

LEMMA ItemsAre ==
  /\ Items \in Seq(ItemType) /\ Len(Items) = Final + Len(HookList)
  /\ Items[1] = Item("tag", "-") /\ Items[2] = Item("draft", "-")
  /\ Items[3] = Item("package", "-") /\ Items[4] = Item("docs", "-")
  /\ \A k \in 1 .. Count : Items[4 + k] = Item("asset", AssetList[k])
  /\ Items[Final] = Item("finalize", "-")
  /\ \A k \in 1 .. Len(HookList) : Items[Final + k] = Item("notify", HookList[k].id)
<1> DEFINE first == <<Item("tag", "-"), Item("draft", "-"), Item("package", "-"),
                      Item("docs", "-")>>
           assets == [k \in DOMAIN AssetList |-> Item("asset", AssetList[k])]
           last == <<Item("finalize", "-")>>
           hooks == [k \in DOMAIN HookList |-> Item("notify", HookList[k].id)]
<1>1. first \in Seq(ItemType) /\ Len(first) = 4 /\ first[1] = Item("tag", "-")
      /\ first[2] = Item("draft", "-") /\ first[3] = Item("package", "-")
      /\ first[4] = Item("docs", "-")
  BY DEF Item, ItemType, Kinds
<1>2. last \in Seq(ItemType) /\ Len(last) = 1 /\ last[1] = Item("finalize", "-")
  BY DEF Item, ItemType, Kinds
<1>3. assets \in Seq(ItemType) /\ Len(assets) = Count
      /\ \A k \in 1 .. Count : assets[k] = Item("asset", AssetList[k])
  <2>1. DOMAIN AssetList = 1 .. Count /\ \A k \in 1 .. Count : AssetList[k] \in Assets
    BY ListsTyped
  <2>2. \A k \in 1 .. Count : Item("asset", AssetList[k]) \in ItemType
    BY <2>1 DEF Item, ItemType, Kinds
  <2>3. assets \in [1 .. Count -> ItemType]
    BY <2>1, <2>2
  <2>. QED  BY <2>1, <2>3, ListsTyped
<1>4. hooks \in Seq(ItemType) /\ Len(hooks) = Len(HookList)
      /\ \A k \in 1 .. Len(HookList) : hooks[k] = Item("notify", HookList[k].id)
  <2>1. DOMAIN HookList = 1 .. Len(HookList)
        /\ \A k \in 1 .. Len(HookList) : HookList[k].id \in Hooks
    BY ListsTyped
  <2>2. \A k \in 1 .. Len(HookList) : Item("notify", HookList[k].id) \in ItemType
    BY <2>1 DEF Item, ItemType, Kinds
  <2>3. hooks \in [1 .. Len(HookList) -> ItemType]
    BY <2>1, <2>2
  <2>. QED  BY <2>1, <2>3, ListsTyped
<1>5. Items = ((first \o assets) \o last) \o hooks
  BY DEF Items
<1> HIDE DEF first, assets, last, hooks
<1>6. PICK front : front = first \o assets
  OBVIOUS
<1>7. /\ front \in Seq(ItemType) /\ Len(front) = 4 + Count
      /\ \A k \in 1 .. 4 : front[k] = first[k]
      /\ \A k \in 1 .. Count : front[4 + k] = assets[k]
  <2>1. /\ front \in Seq(ItemType) /\ Len(front) = Len(first) + Len(assets)
        /\ \A k \in 1 .. Len(first) : front[k] = first[k]
        /\ \A k \in 1 .. Len(assets) : front[Len(first) + k] = assets[k]
    <3>1. /\ first \o assets \in Seq(ItemType)
          /\ Len(first \o assets) = Len(first) + Len(assets)
          /\ \A k \in 1 .. Len(first) : (first \o assets)[k] = first[k]
          /\ \A k \in 1 .. Len(assets) : (first \o assets)[Len(first) + k] = assets[k]
      <4>1. first \in Seq(ItemType) /\ assets \in Seq(ItemType)
        BY <1>1, <1>3
      <4>. QED  BY <4>1, Joined
    <3>. QED  BY <1>6, <3>1
  <2>2. Len(front) = 4 + Count
    BY <1>1, <1>3, <2>1
  <2>3. \A k \in 1 .. 4 : front[k] = first[k]
    BY <1>1, <2>1
  <2>4. \A k \in 1 .. Count : front[4 + k] = assets[k]
    BY <1>1, <1>3, <2>1
  <2>. QED  BY <2>1, <2>2, <2>3, <2>4
<1>8. PICK body : body = front \o last
  OBVIOUS
<1>9. /\ body \in Seq(ItemType) /\ Len(body) = Final
      /\ \A k \in 1 .. 4 + Count : body[k] = front[k]
      /\ body[Final] = last[1]
  <2>1. /\ body \in Seq(ItemType) /\ Len(body) = Len(front) + Len(last)
        /\ \A k \in 1 .. Len(front) : body[k] = front[k]
        /\ \A k \in 1 .. Len(last) : body[Len(front) + k] = last[k]
    <3>1. /\ front \o last \in Seq(ItemType)
          /\ Len(front \o last) = Len(front) + Len(last)
          /\ \A k \in 1 .. Len(front) : (front \o last)[k] = front[k]
          /\ \A k \in 1 .. Len(last) : (front \o last)[Len(front) + k] = last[k]
      <4>1. front \in Seq(ItemType) /\ last \in Seq(ItemType)
        BY <1>2, <1>7
      <4>. QED  BY <4>1, Joined
    <3>. QED  BY <1>8, <3>1
  <2>2. 4 + Count + 1 = Final
    BY ListsTyped DEF Final
  <2>3. Len(body) = Final /\ \A k \in 1 .. 4 + Count : body[k] = front[k]
    BY <1>2, <1>7, <2>1, <2>2
  <2>4. body[Final] = last[1]
    BY <1>2, <1>7, <2>1, <2>2
  <2>. QED  BY <2>1, <2>3, <2>4
<1>10. Items = body \o hooks
  BY <1>5, <1>6, <1>8
<1>11. /\ Items \in Seq(ItemType) /\ Len(Items) = Len(body) + Len(hooks)
       /\ \A k \in 1 .. Len(body) : Items[k] = body[k]
       /\ \A k \in 1 .. Len(hooks) : Items[Len(body) + k] = hooks[k]
  <2>1. /\ body \o hooks \in Seq(ItemType) /\ Len(body \o hooks) = Len(body) + Len(hooks)
        /\ \A k \in 1 .. Len(body) : (body \o hooks)[k] = body[k]
        /\ \A k \in 1 .. Len(hooks) : (body \o hooks)[Len(body) + k] = hooks[k]
    <3>1. body \in Seq(ItemType) /\ hooks \in Seq(ItemType)
      BY <1>4, <1>9
    <3>. QED  BY <3>1, Joined
  <2>. QED  BY <1>10, <2>1
<1>12. \A k \in 1 .. Final : Items[k] = body[k]
  BY <1>9, <1>11
<1>13. \A k \in 1 .. 4 + Count : k \in 1 .. Final /\ Items[k] = front[k]
  BY <1>9, <1>12, ListsTyped DEF Final
<1>14. /\ Items[1] = front[1] /\ Items[2] = front[2] /\ Items[3] = front[3]
       /\ Items[4] = front[4] /\ \A k \in 1 .. Count : Items[4 + k] = front[4 + k]
  BY <1>13, ListsTyped
<1>15. Items[Final] = last[1]
  BY <1>9, <1>12, ListsTyped DEF Final
<1>16. /\ Items[1] = Item("tag", "-") /\ Items[2] = Item("draft", "-")
       /\ Items[3] = Item("package", "-") /\ Items[4] = Item("docs", "-")
  <2>1. /\ front[1] = first[1] /\ front[2] = first[2] /\ front[3] = first[3]
        /\ front[4] = first[4]
    BY <1>7
  <2>. QED  BY <1>1, <1>14, <2>1
<1>17. \A k \in 1 .. Count : Items[4 + k] = Item("asset", AssetList[k])
  <2>. SUFFICES ASSUME NEW k \in 1 .. Count PROVE Items[4 + k] = Item("asset", AssetList[k])
    OBVIOUS
  <2>1. Items[4 + k] = front[4 + k]
    BY <1>14
  <2>2. front[4 + k] = assets[k]
    BY <1>7
  <2>3. assets[k] = Item("asset", AssetList[k])
    BY <1>3
  <2>. QED  BY <2>1, <2>2, <2>3
<1>18. Items[Final] = Item("finalize", "-")
  BY <1>2, <1>15
<1>19. Len(Items) = Final + Len(HookList)
  BY <1>4, <1>9, <1>11
<1>20. \A k \in 1 .. Len(HookList) : Items[Final + k] = Item("notify", HookList[k].id)
  <2>. SUFFICES ASSUME NEW k \in 1 .. Len(HookList)
                PROVE  Items[Final + k] = Item("notify", HookList[k].id)
    OBVIOUS
  <2>1. Items[Final + k] = hooks[k]
    BY <1>4, <1>9, <1>11
  <2>. QED  BY <1>4, <2>1
<1>. QED  BY <1>11, <1>16, <1>17, <1>18, <1>19, <1>20

(* Where an object stands in the order of publication tells what it is.    *)
LEMMA Placed ==
  /\ DOMAIN Items = 1 .. Final + Len(HookList)
  /\ \A i \in DOMAIN Items :
       \/ i = 1 /\ Items[i] = Item("tag", "-")
       \/ i = 2 /\ Items[i] = Item("draft", "-")
       \/ i = 3 /\ Items[i] = Item("package", "-")
       \/ i = 4 /\ Items[i] = Item("docs", "-")
       \/ i \in 5 .. 4 + Count /\ Items[i] = Item("asset", AssetList[i - 4])
            /\ AssetList[i - 4] \in Assets
       \/ i = Final /\ Items[i] = Item("finalize", "-")
       \/ i \in Final + 1 .. Final + Len(HookList)
            /\ Items[i] = Item("notify", HookList[i - Final].id)
            /\ HookList[i - Final].id \in Hooks
<1>1. DOMAIN Items = 1 .. Final + Len(HookList)
  BY ItemsAre, LenProperties
<1>2. ASSUME NEW i \in DOMAIN Items
      PROVE  \/ i = 1 /\ Items[i] = Item("tag", "-")
             \/ i = 2 /\ Items[i] = Item("draft", "-")
             \/ i = 3 /\ Items[i] = Item("package", "-")
             \/ i = 4 /\ Items[i] = Item("docs", "-")
             \/ i \in 5 .. 4 + Count /\ Items[i] = Item("asset", AssetList[i - 4])
                  /\ AssetList[i - 4] \in Assets
             \/ i = Final /\ Items[i] = Item("finalize", "-")
             \/ i \in Final + 1 .. Final + Len(HookList)
                  /\ Items[i] = Item("notify", HookList[i - Final].id)
                  /\ HookList[i - Final].id \in Hooks
  <2>1. i \in Nat /\ Count \in Nat /\ Len(HookList) \in Nat /\ Final = 5 + Count
    BY <1>1, ListsTyped DEF Final
  <2>2. CASE i \in 5 .. 4 + Count
    <3>1. i - 4 \in 1 .. Count /\ 4 + (i - 4) = i
      BY <2>1, <2>2
    <3>2. Items[4 + (i - 4)] = Item("asset", AssetList[i - 4])
      BY <3>1, ItemsAre
    <3>3. AssetList[i - 4] \in Assets
      BY <3>1, ListsTyped
    <3>. QED  BY <2>2, <3>1, <3>2, <3>3
  <2>3. CASE i \in Final + 1 .. Final + Len(HookList)
    <3>1. i - Final \in 1 .. Len(HookList) /\ Final + (i - Final) = i
      BY <2>1, <2>3
    <3>2. Items[Final + (i - Final)] = Item("notify", HookList[i - Final].id)
      BY <3>1, ItemsAre
    <3>3. HookList[i - Final] \in [id : Hooks, required : BOOLEAN]
      BY <3>1, ListsTyped
    <3>. QED  BY <2>3, <3>1, <3>2, <3>3
  <2>4. i \in 1 .. Final + Len(HookList)
    BY <1>1
  <2>5. i \in 1 .. 4 \/ i \in 5 .. 4 + Count \/ i = Final
        \/ i \in Final + 1 .. Final + Len(HookList)
    BY <2>1, <2>4
  <2>6. CASE i \in 1 .. 4
    BY <2>6, ItemsAre
  <2>7. CASE i = Final
    BY <2>7, ItemsAre
  <2>. QED  BY <2>2, <2>3, <2>5, <2>6, <2>7
<1>. QED  BY <1>1, <1>2

(* The same, of the fields.                                                *)
LEMMA PlacedFields ==
  ASSUME NEW i \in DOMAIN Items
  PROVE  \/ i = 1 /\ Items[i].kind = "tag" /\ Items[i].name = "-"
         \/ i = 2 /\ Items[i].kind = "draft" /\ Items[i].name = "-"
         \/ i = 3 /\ Items[i].kind = "package" /\ Items[i].name = "-"
         \/ i = 4 /\ Items[i].kind = "docs" /\ Items[i].name = "-"
         \/ i \in 5 .. 4 + Count /\ Items[i].kind = "asset"
              /\ Items[i].name = AssetList[i - 4] /\ AssetList[i - 4] \in Assets
         \/ i = Final /\ Items[i].kind = "finalize" /\ Items[i].name = "-"
         \/ i \in Final + 1 .. Final + Len(HookList) /\ Items[i].kind = "notify"
              /\ Items[i].name = HookList[i - Final].id /\ HookList[i - Final].id \in Hooks
<1>1. \A k, n : Item(k, n).kind = k /\ Item(k, n).name = n
  BY DEF Item
<1>2. \/ i = 1 /\ Items[i] = Item("tag", "-")
      \/ i = 2 /\ Items[i] = Item("draft", "-")
      \/ i = 3 /\ Items[i] = Item("package", "-")
      \/ i = 4 /\ Items[i] = Item("docs", "-")
      \/ i \in 5 .. 4 + Count /\ Items[i] = Item("asset", AssetList[i - 4])
           /\ AssetList[i - 4] \in Assets
      \/ i = Final /\ Items[i] = Item("finalize", "-")
      \/ i \in Final + 1 .. Final + Len(HookList)
           /\ Items[i] = Item("notify", HookList[i - Final].id)
           /\ HookList[i - Final].id \in Hooks
  BY Placed
<1>. QED  BY <1>1, <1>2

(* What the proofs ask of an object.                                       *)
LEMMA ItemFacts ==
  ASSUME NEW i \in DOMAIN Items
  PROVE  /\ Items[i].kind \in Kinds /\ i \in Nat \ {0}
         /\ Items[i] = Item(Items[i].kind, Items[i].name)
         /\ Items[i].kind = "asset" => Items[i].name \in Assets /\ WantsRelease
         /\ Items[i].kind = "notify" => Items[i].name \in Hooks
<1>1. Count \in Nat /\ Final = 5 + Count /\ Len(HookList) \in Nat
  BY ListsTyped DEF Final
<1>2. i \in Nat \ {0}
  BY <1>1, Placed
<1>3. Items[i].kind = "asset" => i \in 5 .. 4 + Count
  BY <1>1, Placed DEF Item
<1>4. ASSUME i \in 5 .. 4 + Count PROVE WantsRelease
  <2>1. Count # 0
    BY <1>1, <1>4
  <2>. QED  BY <2>1, LiveAssumption DEF Count
<1>5. Items[i].kind \in Kinds /\ Items[i] = Item(Items[i].kind, Items[i].name)
  BY Placed DEF Item, Kinds
<1>6. Items[i].kind = "asset" => Items[i].name \in Assets
  BY Placed DEF Item
<1>7. Items[i].kind = "notify" => Items[i].name \in Hooks
  BY Placed DEF Item
<1>. QED  BY <1>2, <1>3, <1>4, <1>5, <1>6, <1>7

(* No two objects are the same.                                            *)
LEMMA ItemsDistinct ==
  ASSUME NEW i \in DOMAIN Items, NEW j \in DOMAIN Items, Items[i] = Items[j]
  PROVE  i = j
<1>1. Count \in Nat /\ Final = 5 + Count /\ Len(HookList) \in Nat
  BY ListsTyped DEF Final
<1>2. i \in Nat /\ j \in Nat
  BY ItemFacts
<1>3. CASE Items[i].kind = "asset"
  <2>1. i \in 5 .. 4 + Count /\ Items[i].name = AssetList[i - 4]
    BY <1>3, PlacedFields
  <2>2. j \in 5 .. 4 + Count /\ Items[j].name = AssetList[j - 4]
    BY <1>3, PlacedFields
  <2>3. i - 4 \in DOMAIN AssetList /\ j - 4 \in DOMAIN AssetList
    BY <1>1, <2>1, <2>2, ListsTyped
  <2>4. AssetList[i - 4] = AssetList[j - 4]
    BY <2>1, <2>2
  <2>5. i - 4 = j - 4
    BY <2>3, <2>4, LiveAssumption DEF IsInjective
  <2>. QED  BY <1>2, <2>5
<1>4. CASE Items[i].kind = "notify"
  <2>1. i \in Final + 1 .. Final + Len(HookList)
        /\ Items[i].name = HookList[i - Final].id
    BY <1>4, PlacedFields
  <2>2. j \in Final + 1 .. Final + Len(HookList)
        /\ Items[j].name = HookList[j - Final].id
    BY <1>4, PlacedFields
  <2>3. i - Final \in DOMAIN HookList /\ j - Final \in DOMAIN HookList
    BY <1>1, <2>1, <2>2, ListsTyped
  <2>4. HookList[i - Final].id = HookList[j - Final].id
    BY <2>1, <2>2
  <2>5. i - Final = j - Final
    BY <2>3, <2>4, LiveAssumption
  <2>. QED  BY <1>1, <1>2, <2>5
<1>5. CASE Items[i].kind # "asset" /\ Items[i].kind # "notify"
  <2>. Items[j].kind # "asset" /\ Items[j].kind # "notify"
    BY <1>5
  <2>1. \/ i = 1 /\ Items[i].kind = "tag"
        \/ i = 2 /\ Items[i].kind = "draft"
        \/ i = 3 /\ Items[i].kind = "package"
        \/ i = 4 /\ Items[i].kind = "docs"
        \/ i = Final /\ Items[i].kind = "finalize"
    BY <1>5, PlacedFields
  <2>2. \/ j = 1 /\ Items[j].kind = "tag"
        \/ j = 2 /\ Items[j].kind = "draft"
        \/ j = 3 /\ Items[j].kind = "package"
        \/ j = 4 /\ Items[j].kind = "docs"
        \/ j = Final /\ Items[j].kind = "finalize"
    BY <1>5, PlacedFields
  <2>. QED  BY <2>1, <2>2
<1>. QED  BY <1>3, <1>4, <1>5

(***************************************************************************)
(* The world.  Persists says what no step takes back, of a Release and of  *)
(* the rest; what a run has seen, and what rests on it, stays true by it.  *)
(***************************************************************************)
Uploaded == {"mine", "other"}

Grown(old, new) ==
  /\ new \in Release
  /\ new.mine = old.mine
  /\ ~old.draft => ~new.draft
  /\ \A a \in Assets :
       /\ old.assets[a] \in Uploaded => new.assets[a] = old.assets[a]
       /\ old.deleted[a] <= new.deleted[a]
       /\ old.assets[a] = "unfinished" /\ new.deleted[a] = old.deleted[a]
            => new.assets[a] = "unfinished"

ReleasesPersist ==
  /\ releases' \in Seq(Release)
  /\ \A id \in DOMAIN releases :
       id \in DOMAIN releases' /\ Grown(releases[id], releases'[id])

Persists ==
  /\ tag # "none" => tag' = tag
  /\ package # "none" => package' = package
  /\ docs # "none" => docs' = docs
  /\ visible \subseteq visible'
  /\ delivered \subseteq delivered'
  /\ ReleasesPersist

WorldTyped ==
  /\ tag \in Held /\ package \in Held /\ docs \in Held
  /\ releases \in Seq(Release)
  /\ visible \subseteq {"package", "docs"}
  /\ delivered \subseteq Hooks
  /\ "package" \in visible => package # "none"
  /\ "docs" \in visible => docs # "none"

(* The form of a request for an object: what it addresses is there.  A     *)
(* delete names an asset by its id, so it is refused once another took the *)
(* name, and until then finds it as unfinished as the run that read it.    *)
RequestFor(item, r) ==
  CASE item.kind \in {"tag", "draft", "package", "docs"} -> r = Request(item.kind)
    [] item.kind = "asset" ->
         \E id \in DOMAIN releases :
           \/ r = UploadRequest(id, item.name)
           \/ \E n \in Nat :
                /\ r = DeleteRequest(id, item.name, n)
                /\ n <= releases[id].deleted[item.name]
                /\ n = releases[id].deleted[item.name]
                     => releases[id].assets[item.name] = "unfinished"
    [] item.kind = "finalize" ->
         \E id \in DOMAIN releases : r = ReleaseRequest("finalize", id)
    [] item.kind = "notify" -> r = NotifyRequest(item.name)

LEMMA SameGrown ==
  ASSUME NEW r \in Release
  PROVE  Grown(r, r)
<1>1. \A a \in Assets : r.deleted[a] \in Nat
  BY DEF Release
<1>. QED  BY <1>1 DEF Grown

LEMMA NoReleaseChanges ==
  ASSUME releases \in Seq(Release), UNCHANGED releases
  PROVE  ReleasesPersist
<1>1. \A id \in DOMAIN releases : releases[id] \in Release
  BY ElementOfSeq
<1>. QED  BY <1>1, SameGrown DEF ReleasesPersist

LEMMA OneReleaseChanges ==
  ASSUME releases \in Seq(Release), NEW k \in DOMAIN releases, NEW new,
         Grown(releases[k], new), releases' = [releases EXCEPT ![k] = new]
  PROVE  ReleasesPersist
<1>1. \A id \in DOMAIN releases : releases[id] \in Release
  BY ElementOfSeq
<1>2. new \in Release
  BY DEF Grown
<1>3. releases' \in Seq(Release)
  BY <1>2, ExceptSeq
<1>4. DOMAIN releases' = DOMAIN releases
      /\ \A id \in DOMAIN releases : releases'[id] = IF id = k THEN new ELSE releases[id]
  BY DEF Release
<1>5. \A id \in DOMAIN releases : Grown(releases[id], releases'[id])
  BY <1>1, <1>4, SameGrown
<1>. QED  BY <1>3, <1>4, <1>5 DEF ReleasesPersist

LEMMA OneReleaseMore ==
  ASSUME releases \in Seq(Release), NEW new \in Release, releases' = Append(releases, new)
  PROVE  /\ ReleasesPersist /\ releases' # <<>>
         /\ DOMAIN releases' = DOMAIN releases \cup {Len(releases) + 1}
         /\ \A id \in DOMAIN releases : releases'[id] = releases[id]
         /\ releases'[Len(releases) + 1] = new
<1>1. \A id \in DOMAIN releases : releases[id] \in Release
  BY ElementOfSeq
<1>2. /\ releases' \in Seq(Release) /\ releases' # <<>>
      /\ Len(releases') = Len(releases) + 1
      /\ \A i \in 1 .. Len(releases) : releases'[i] = releases[i]
      /\ releases'[Len(releases) + 1] = new
  BY AppendProperties
<1>3. DOMAIN releases = 1 .. Len(releases) /\ Len(releases) \in Nat
      /\ DOMAIN releases' = 1 .. Len(releases) + 1
  BY <1>2, LenProperties
<1>4. \A id \in DOMAIN releases : id \in DOMAIN releases' /\ releases'[id] = releases[id]
  BY <1>2, <1>3
<1>5. \A id \in DOMAIN releases : Grown(releases[id], releases'[id])
  BY <1>1, <1>4, SameGrown
<1>6. ReleasesPersist
  BY <1>2, <1>4, <1>5 DEF ReleasesPersist
<1>7. 1 .. Len(releases) + 1 = 1 .. Len(releases) \cup {Len(releases) + 1}
  BY <1>3
<1>. QED  BY <1>2, <1>3, <1>4, <1>6, <1>7

LEMMA AssetAppears ==
  ASSUME releases \in Seq(Release), NEW id \in DOMAIN releases, NEW a \in Assets,
         NEW held \in {"mine", "other", "unfinished"},
         releases[id].assets[a] = "none", SetAsset(id, a, held)
  PROVE  /\ ReleasesPersist
         /\ DOMAIN releases' = DOMAIN releases
         /\ \A k \in DOMAIN releases : k # id => releases'[k] = releases[k]
         /\ releases'[id].mine = releases[id].mine
         /\ releases'[id].draft = releases[id].draft
         /\ releases'[id].assets = [releases[id].assets EXCEPT ![a] = held]
<1>1. PICK new : new = [releases[id] EXCEPT !.assets = [releases[id].assets EXCEPT ![a] = held]]
  OBVIOUS
<1>2. releases' = [releases EXCEPT ![id] = new]
  BY <1>1 DEF SetAsset
<1>3. releases[id] \in Release
  BY ElementOfSeq
<1>4. /\ new \in Release /\ new.mine = releases[id].mine /\ new.draft = releases[id].draft
      /\ new.deleted = releases[id].deleted
      /\ new.assets = [releases[id].assets EXCEPT ![a] = held]
  BY <1>1, <1>3 DEF Release, AssetHeld, Held
<1>5. \A b \in Assets : new.assets[b] = IF b = a THEN held ELSE releases[id].assets[b]
  BY <1>3, <1>4 DEF Release
<1>6. \A b \in Assets : new.deleted[b] \in Nat
  BY <1>4 DEF Release
<1>7. Grown(releases[id], new)
  BY <1>4, <1>5, <1>6 DEF Grown, Uploaded
<1>8. ReleasesPersist
  BY <1>2, <1>7, OneReleaseChanges
<1>9. DOMAIN releases' = DOMAIN releases
      /\ \A k \in DOMAIN releases : releases'[k] = IF k = id THEN new ELSE releases[k]
  BY <1>2
<1>. QED  BY <1>4, <1>8, <1>9

LEMMA AssetDisappears ==
  ASSUME releases \in Seq(Release), NEW id \in DOMAIN releases, NEW a \in Assets,
         releases[id].assets[a] = "unfinished",
         releases' = [releases EXCEPT ![id].assets[a] = "none",
                                      ![id].deleted[a] = @ + 1]
  PROVE  /\ ReleasesPersist
         /\ DOMAIN releases' = DOMAIN releases
         /\ \A k \in DOMAIN releases : k # id => releases'[k] = releases[k]
         /\ releases'[id].mine = releases[id].mine
         /\ releases'[id].draft = releases[id].draft
         /\ releases'[id].assets = [releases[id].assets EXCEPT ![a] = "none"]
<1>0. releases[id] \in Release
  BY ElementOfSeq
<1>1. PICK one : one = [releases[id] EXCEPT !.assets = [releases[id].assets EXCEPT ![a] = "none"]]
  OBVIOUS
<1>2. PICK new : new = [one EXCEPT !.deleted =
                          [releases[id].deleted EXCEPT ![a] = releases[id].deleted[a] + 1]]
  OBVIOUS
<1>3. /\ one \in Release /\ one.mine = releases[id].mine /\ one.draft = releases[id].draft
      /\ one.deleted = releases[id].deleted /\ one.extra = releases[id].extra
      /\ one.assets = [releases[id].assets EXCEPT ![a] = "none"]
  BY <1>0, <1>1 DEF Release, AssetHeld, Held
<1>4. [releases[id].deleted EXCEPT ![a] = releases[id].deleted[a] + 1] \in [Assets -> Nat]
  BY <1>0 DEF Release
<1>5. /\ new \in Release /\ new.mine = releases[id].mine /\ new.draft = releases[id].draft
      /\ new.deleted = [releases[id].deleted EXCEPT ![a] = releases[id].deleted[a] + 1]
      /\ new.assets = [releases[id].assets EXCEPT ![a] = "none"]
  BY <1>2, <1>3, <1>4 DEF Release
<1>6. releases' = [releases EXCEPT ![id] = new]
  <2>1. PICK mid : mid = [releases EXCEPT ![id].assets[a] = "none"]
    OBVIOUS
  <2>2. mid = [releases EXCEPT ![id] = one]
    BY <1>1, <2>1
  <2>3. mid[id] = one /\ DOMAIN mid = DOMAIN releases
    BY <2>2
  <2>4. releases' = [mid EXCEPT ![id].deleted[a] = @ + 1]
    BY <2>1
  <2>5. releases' = [mid EXCEPT ![id] = [one EXCEPT !.deleted =
                          [one.deleted EXCEPT ![a] = one.deleted[a] + 1]]]
    BY <2>3, <2>4
  <2>. QED  BY <1>2, <1>3, <2>2, <2>5
<1>7. /\ \A b \in Assets : new.assets[b] = IF b = a THEN "none" ELSE releases[id].assets[b]
      /\ \A b \in Assets : new.deleted[b] = IF b = a THEN releases[id].deleted[a] + 1
                                                     ELSE releases[id].deleted[b]
      /\ \A b \in Assets : releases[id].deleted[b] \in Nat
  BY <1>0, <1>5 DEF Release
<1>8. Grown(releases[id], new)
  BY <1>5, <1>7 DEF Grown, Uploaded
<1>9. ReleasesPersist
  BY <1>6, <1>8, OneReleaseChanges
<1>10. DOMAIN releases' = DOMAIN releases
       /\ \A k \in DOMAIN releases : releases'[k] = IF k = id THEN new ELSE releases[k]
  BY <1>6
<1>. QED  BY <1>5, <1>9, <1>10

LEMMA FinalizedNow ==
  ASSUME releases \in Seq(Release), NEW id \in DOMAIN releases,
         releases' = [releases EXCEPT ![id].draft = FALSE]
  PROVE  /\ ReleasesPersist
         /\ DOMAIN releases' = DOMAIN releases
         /\ \A k \in DOMAIN releases : k # id => releases'[k] = releases[k]
         /\ releases'[id].mine = releases[id].mine
         /\ ~releases'[id].draft
         /\ releases'[id].assets = releases[id].assets
<1>1. PICK new : new = [releases[id] EXCEPT !.draft = FALSE]
  OBVIOUS
<1>2. releases' = [releases EXCEPT ![id] = new]
  BY <1>1
<1>3. releases[id] \in Release
  BY ElementOfSeq
<1>4. /\ new \in Release /\ new.mine = releases[id].mine /\ ~new.draft
      /\ new.deleted = releases[id].deleted /\ new.assets = releases[id].assets
  BY <1>1, <1>3 DEF Release
<1>5. \A b \in Assets : new.deleted[b] \in Nat
  BY <1>4 DEF Release
<1>6. Grown(releases[id], new)
  BY <1>4, <1>5 DEF Grown
<1>7. ReleasesPersist
  BY <1>2, <1>6, OneReleaseChanges
<1>8. DOMAIN releases' = DOMAIN releases
      /\ \A k \in DOMAIN releases : releases'[k] = IF k = id THEN new ELSE releases[k]
  BY <1>2
<1>. QED  BY <1>4, <1>7, <1>8

LEMMA ExtraAppears ==
  ASSUME releases \in Seq(Release), NEW id \in DOMAIN releases,
         NEW held \in {"uploaded", "unfinished"},
         releases' = [releases EXCEPT ![id].extra = held]
  PROVE  /\ ReleasesPersist
         /\ DOMAIN releases' = DOMAIN releases
         /\ \A k \in DOMAIN releases : k # id => releases'[k] = releases[k]
         /\ releases'[id].mine = releases[id].mine
         /\ releases'[id].draft = releases[id].draft
         /\ releases'[id].assets = releases[id].assets
<1>1. PICK new : new = [releases[id] EXCEPT !.extra = held]
  OBVIOUS
<1>2. releases' = [releases EXCEPT ![id] = new]
  BY <1>1
<1>3. releases[id] \in Release
  BY ElementOfSeq
<1>4. /\ new \in Release /\ new.mine = releases[id].mine /\ new.draft = releases[id].draft
      /\ new.deleted = releases[id].deleted /\ new.assets = releases[id].assets
  BY <1>1, <1>3 DEF Release
<1>5. \A b \in Assets : new.deleted[b] \in Nat
  BY <1>4 DEF Release
<1>6. Grown(releases[id], new)
  BY <1>4, <1>5 DEF Grown
<1>7. ReleasesPersist
  BY <1>2, <1>6, OneReleaseChanges
<1>8. DOMAIN releases' = DOMAIN releases
      /\ \A k \in DOMAIN releases : releases'[k] = IF k = id THEN new ELSE releases[k]
  BY <1>2
<1>. QED  BY <1>4, <1>7, <1>8

(***************************************************************************)
(* What an object rests on: every object that the release needs before it  *)
(* holds, and is settled, so that every later observation shows it.        *)
(***************************************************************************)
CoreSettled ==
  /\ tag # "none"
  /\ "package" \in visible
  /\ WantsDocs => "docs" \in visible
  /\ WantsRelease => releases # <<>> /\ ~releases[1].draft

Settled(item) ==
  CASE item.kind = "tag"      -> tag # "none"
    [] item.kind = "draft"    -> releases # <<>>
    [] item.kind = "package"  -> "package" \in visible
    [] item.kind = "docs"     -> "docs" \in visible
    [] item.kind = "asset"    -> releases # <<>> /\ releases[1].assets[item.name] \in Uploaded
    [] item.kind = "finalize" -> releases # <<>> /\ ~releases[1].draft
    [] item.kind = "notify"   -> item.name \in delivered /\ CoreSettled

Rests(i) ==
  \A j \in NeededStages : j < i => Holds(Items[j]) /\ Settled(Items[j])

LEMMA FirstRelease ==
  ASSUME releases \in Seq(Release)
  PROVE  releases # <<>> => 1 \in DOMAIN releases
<1>1. releases # <<>> => Len(releases) \in Nat \ {0}
  BY EmptySeq
<1>2. DOMAIN releases = 1 .. Len(releases)
  BY LenProperties
<1>. QED  BY <1>1, <1>2

LEMMA CoreStaysSettled ==
  ASSUME WorldTyped, Persists, CoreSettled
  PROVE  CoreSettled'
<1>1. releases # <<>> => 1 \in DOMAIN releases
  BY FirstRelease DEF WorldTyped
<1>2. releases # <<>> /\ ~releases[1].draft => releases' # <<>> /\ ~releases'[1].draft
  <2>. SUFFICES ASSUME releases # <<>>, ~releases[1].draft
                PROVE  releases' # <<>> /\ ~releases'[1].draft
    OBVIOUS
  <2>1. 1 \in DOMAIN releases' /\ ~releases'[1].draft
    BY <1>1 DEF Persists, ReleasesPersist, Grown
  <2>. QED  BY <2>1
<1>. QED  BY <1>2 DEF CoreSettled, Persists

LEMMA StaysSettled ==
  ASSUME WorldTyped, Persists, NEW i \in DOMAIN Items
  PROVE  /\ Settled(Items[i]) => Settled(Items[i])'
         /\ Holds(Items[i]) => Holds(Items[i])'
<1>1. Items[i].kind \in Kinds /\ (Items[i].kind = "asset" => Items[i].name \in Assets)
  BY ItemFacts
<1>2. releases # <<>> => 1 \in DOMAIN releases
  BY FirstRelease DEF WorldTyped
<1>3. \A id \in DOMAIN releases : id \in DOMAIN releases' /\ Grown(releases[id], releases'[id])
  BY DEF Persists, ReleasesPersist
<1>4. ASSUME Settled(Items[i]) PROVE Settled(Items[i])'
  <2>1. CASE Items[i].kind = "asset"
    <3>1. releases # <<>> /\ releases[1].assets[Items[i].name] \in Uploaded
      BY <1>4, <2>1 DEF Settled
    <3>2. 1 \in DOMAIN releases' /\ releases'[1].assets[Items[i].name] \in Uploaded
      BY <1>1, <1>2, <1>3, <2>1, <3>1 DEF Grown
    <3>. QED  BY <2>1, <3>2 DEF Settled
  <2>2. CASE Items[i].kind = "finalize"
    <3>1. releases # <<>> /\ ~releases[1].draft
      BY <1>4, <2>2 DEF Settled
    <3>2. 1 \in DOMAIN releases' /\ ~releases'[1].draft
      BY <1>2, <1>3, <3>1 DEF Grown
    <3>. QED  BY <2>2, <3>2 DEF Settled
  <2>3. CASE Items[i].kind = "draft"
    <3>1. 1 \in DOMAIN releases'
      BY <1>2, <1>3, <1>4, <2>3 DEF Settled
    <3>. QED  BY <2>3, <3>1 DEF Settled
  <2>4. CASE Items[i].kind = "notify"
    <3>1. CoreSettled'
      BY <1>4, <2>4, CoreStaysSettled DEF Settled
    <3>. QED  BY <1>4, <2>4, <3>1 DEF Settled, Persists
  <2>5. CASE Items[i].kind \in {"tag", "package", "docs"}
    BY <1>4, <2>5 DEF Settled, Persists
  <2>. QED  BY <1>1, <2>1, <2>2, <2>3, <2>4, <2>5 DEF Kinds
<1>5. ASSUME Holds(Items[i]) PROVE Holds(Items[i])'
  <2>1. CASE Items[i].kind = "asset"
    <3>1. PICK id \in DOMAIN releases :
            releases[id].mine /\ releases[id].assets[Items[i].name] = "mine"
      BY <1>5, <2>1 DEF Holds
    <3>2. id \in DOMAIN releases' /\ releases'[id].mine
          /\ releases'[id].assets[Items[i].name] = "mine"
      BY <1>1, <1>3, <2>1, <3>1 DEF Grown, Uploaded
    <3>. QED  BY <2>1, <3>2 DEF Holds
  <2>2. CASE Items[i].kind = "finalize"
    <3>1. PICK id \in DOMAIN releases : releases[id].mine /\ ~releases[id].draft
      BY <1>5, <2>2 DEF Holds
    <3>2. id \in DOMAIN releases' /\ releases'[id].mine /\ ~releases'[id].draft
      BY <1>3, <3>1 DEF Grown
    <3>. QED  BY <2>2, <3>2 DEF Holds
  <2>3. CASE Items[i].kind = "draft"
    <3>1. PICK id \in DOMAIN releases : releases[id].mine
      BY <1>5, <2>3 DEF Holds
    <3>2. id \in DOMAIN releases' /\ releases'[id].mine
      BY <1>3, <3>1 DEF Grown
    <3>. QED  BY <2>3, <3>2 DEF Holds
  <2>4. CASE Items[i].kind \in {"tag", "package", "docs", "notify"}
    BY <1>5, <2>4 DEF Holds, Persists
  <2>. QED  BY <1>1, <2>1, <2>2, <2>3, <2>4 DEF Kinds
<1>. QED  BY <1>4, <1>5

LEMMA StaysRested ==
  ASSUME WorldTyped, Persists, NEW i \in DOMAIN Items, Rests(i)
  PROVE  Rests(i)'
<1>1. NeededStages \subseteq DOMAIN Items
  BY DEF NeededStages, Indices
<1>. QED  BY <1>1, StaysSettled DEF Rests

LEMMA StaysRequest ==
  ASSUME WorldTyped, Persists, NEW i \in DOMAIN Items, NEW r, RequestFor(Items[i], r)
  PROVE  RequestFor(Items[i], r)'
<1>1. Items[i].kind \in Kinds /\ (Items[i].kind = "asset" => Items[i].name \in Assets)
  BY ItemFacts
<1>2. \A id \in DOMAIN releases : id \in DOMAIN releases' /\ Grown(releases[id], releases'[id])
  BY DEF Persists, ReleasesPersist
<1>3. CASE Items[i].kind = "asset"
  <2>1. PICK id \in DOMAIN releases :
          \/ r = UploadRequest(id, Items[i].name)
          \/ \E n \in Nat :
               /\ r = DeleteRequest(id, Items[i].name, n)
               /\ n <= releases[id].deleted[Items[i].name]
               /\ n = releases[id].deleted[Items[i].name]
                    => releases[id].assets[Items[i].name] = "unfinished"
    BY <1>3 DEF RequestFor
  <2>2. CASE r = UploadRequest(id, Items[i].name)
    BY <1>2, <1>3, <2>2 DEF RequestFor
  <2>3. CASE \E n \in Nat :
               /\ r = DeleteRequest(id, Items[i].name, n)
               /\ n <= releases[id].deleted[Items[i].name]
               /\ n = releases[id].deleted[Items[i].name]
                    => releases[id].assets[Items[i].name] = "unfinished"
    <3>1. PICK n \in Nat :
               /\ r = DeleteRequest(id, Items[i].name, n)
               /\ n <= releases[id].deleted[Items[i].name]
               /\ n = releases[id].deleted[Items[i].name]
                    => releases[id].assets[Items[i].name] = "unfinished"
      BY <2>3
    <3>2. /\ id \in DOMAIN releases' /\ Grown(releases[id], releases'[id])
          /\ releases[id] \in Release /\ releases'[id] \in Release
      <4>1. releases[id] \in Release
        BY ElementOfSeq DEF WorldTyped
      <4>. QED  BY <1>2, <4>1 DEF Grown
    <3>3. /\ releases[id].deleted[Items[i].name] \in Nat
          /\ releases'[id].deleted[Items[i].name] \in Nat
          /\ releases[id].deleted[Items[i].name] <= releases'[id].deleted[Items[i].name]
          /\ releases[id].assets[Items[i].name] = "unfinished"
               /\ releases'[id].deleted[Items[i].name] = releases[id].deleted[Items[i].name]
               => releases'[id].assets[Items[i].name] = "unfinished"
      BY <1>1, <1>3, <3>2 DEF Grown, Release
    <3>4. /\ n <= releases'[id].deleted[Items[i].name]
          /\ n = releases'[id].deleted[Items[i].name]
               => releases'[id].assets[Items[i].name] = "unfinished"
      BY <3>1, <3>3
    <3>. QED  BY <1>3, <3>1, <3>2, <3>4 DEF RequestFor
  <2>. QED  BY <2>1, <2>2, <2>3
<1>4. CASE Items[i].kind = "finalize"
  BY <1>2, <1>4 DEF RequestFor
<1>5. CASE Items[i].kind \notin {"asset", "finalize"}
  BY <1>1, <1>5 DEF RequestFor, Kinds
<1>. QED  BY <1>3, <1>4, <1>5

(***************************************************************************)
(* The steps of the world.  Each one persists, and makes at most the       *)
(* object that its request is for newly held.                              *)
(***************************************************************************)
LEMMA OtherObject ==
  ASSUME NEW i \in DOMAIN Items, NEW j \in DOMAIN Items, i # j
  PROVE  \/ Items[i].kind # Items[j].kind
         \/ /\ Items[i].kind \in {"asset", "notify"}
            /\ Items[i].name # Items[j].name
<1>1. Items[i] = Item(Items[i].kind, Items[i].name)
      /\ Items[j] = Item(Items[j].kind, Items[j].name)
  BY ItemFacts
<1>2. ~(Items[i].kind = Items[j].kind /\ Items[i].name = Items[j].name)
  BY <1>1, ItemsDistinct
<1>3. Items[i].kind \in {"asset", "notify"} \/ Items[i].name = "-"
  BY PlacedFields
<1>4. Items[j].kind \in {"asset", "notify"} \/ Items[j].name = "-"
  BY PlacedFields
<1>. QED  BY <1>2, <1>3, <1>4

OnlyHolds(i) ==
  \A j \in DOMAIN Items : j # i => (Holds(Items[j])' => Holds(Items[j]))

NothingNew == \A j \in DOMAIN Items : Holds(Items[j])' => Holds(Items[j])

(* No Release becomes one of the Candidate's, or more complete.            *)
NoReleaseGains ==
  \A id \in DOMAIN releases' :
    releases'[id].mine =>
      /\ id \in DOMAIN releases /\ releases[id].mine
      /\ ~releases'[id].draft => ~releases[id].draft
      /\ \A a \in Assets : releases'[id].assets[a] = "mine" => releases[id].assets[a] = "mine"

LEMMA NoGain ==
  ASSUME NoReleaseGains, NEW j \in DOMAIN Items, Holds(Items[j])',
         Items[j].kind \in {"draft", "asset", "finalize"}
  PROVE  Holds(Items[j])
<1>1. CASE Items[j].kind = "draft"
  BY <1>1 DEF NoReleaseGains, Holds
<1>2. CASE Items[j].kind = "asset"
  <2>1. Items[j].name \in Assets
    BY <1>2, ItemFacts
  <2>2. PICK id \in DOMAIN releases' :
          releases'[id].mine /\ releases'[id].assets[Items[j].name] = "mine"
    BY <1>2 DEF Holds
  <2>3. id \in DOMAIN releases /\ releases[id].mine
        /\ releases[id].assets[Items[j].name] = "mine"
    BY <2>1, <2>2 DEF NoReleaseGains
  <2>. QED  BY <1>2, <2>3 DEF Holds
<1>3. CASE Items[j].kind = "finalize"
  <2>1. PICK id \in DOMAIN releases' : releases'[id].mine /\ ~releases'[id].draft
    BY <1>3 DEF Holds
  <2>2. id \in DOMAIN releases /\ releases[id].mine /\ ~releases[id].draft
    BY <2>1 DEF NoReleaseGains
  <2>. QED  BY <1>3, <2>2 DEF Holds
<1>. QED  BY <1>1, <1>2, <1>3

LEMMA RegistryEffect ==
  ASSUME WorldTyped, NEW i \in DOMAIN Items, NEW r, NEW rest,
         Items[i].kind \in {"tag", "package", "docs"}, RequestFor(Items[i], r),
         Accepts(r), Commits(r, rest)
  PROVE  Persists /\ WorldTyped' /\ OnlyHolds(i)
<1>1. r = Request(Items[i].kind) /\ r.op = Items[i].kind
  <2>1. r = Request(Items[i].kind)
    BY DEF RequestFor
  <2>. QED  BY <2>1 DEF Request
<1>2. UNCHANGED <<releases, visible, delivered, rivals>>
  BY <1>1 DEF Commits
<1>3. /\ tag' = IF Items[i].kind = "tag" THEN "mine" ELSE tag
      /\ package' = IF Items[i].kind = "package" THEN "mine" ELSE package
      /\ docs' = IF Items[i].kind = "docs" THEN "mine" ELSE docs
  BY <1>1 DEF Commits
<1>4. /\ Items[i].kind = "tag" => tag = "none"
      /\ Items[i].kind = "package" => package = "none"
      /\ Items[i].kind = "docs" => docs = "none"
  BY <1>1 DEF Accepts
<1>5. ReleasesPersist
  BY <1>2, NoReleaseChanges DEF WorldTyped
<1>6. Persists
  <2>1. /\ tag # "none" => tag' = tag
        /\ package # "none" => package' = package
        /\ docs # "none" => docs' = docs
    BY <1>3, <1>4
  <2>. QED  BY <1>2, <1>5, <2>1 DEF Persists
<1>7. WorldTyped'
  BY <1>2, <1>3 DEF WorldTyped, Held
<1>8. OnlyHolds(i)
  <2>. SUFFICES ASSUME NEW j \in DOMAIN Items, j # i, Holds(Items[j])'
                PROVE  Holds(Items[j])
    BY DEF OnlyHolds
  <2>1. Items[j].kind # Items[i].kind /\ Items[j].kind \in Kinds
    BY OtherObject, ItemFacts
  <2>. QED  BY <1>2, <1>3, <2>1 DEF Holds, Kinds
<1>. QED  BY <1>6, <1>7, <1>8

LEMMA NotifyEffect ==
  ASSUME WorldTyped, NEW i \in DOMAIN Items, NEW r, NEW rest,
         Items[i].kind = "notify", RequestFor(Items[i], r), Commits(r, rest)
  PROVE  Persists /\ WorldTyped' /\ OnlyHolds(i)
<1>1. r = NotifyRequest(Items[i].name) /\ r.op = "notify" /\ r.hook = Items[i].name
  BY DEF RequestFor, NotifyRequest
<1>2. UNCHANGED <<tag, package, docs, releases, visible, rivals>>
      /\ delivered' = delivered \cup {Items[i].name}
  BY <1>1 DEF Commits
<1>3. ReleasesPersist
  BY <1>2, NoReleaseChanges DEF WorldTyped
<1>4. Persists
  BY <1>2, <1>3 DEF Persists
<1>5. Items[i].name \in Hooks
  BY ItemFacts
<1>6. WorldTyped'
  BY <1>2, <1>5 DEF WorldTyped
<1>7. OnlyHolds(i)
  <2>. SUFFICES ASSUME NEW j \in DOMAIN Items, j # i, Holds(Items[j])'
                PROVE  Holds(Items[j])
    BY DEF OnlyHolds
  <2>1. Items[j].kind \in Kinds /\ (Items[j].kind = "notify" => Items[j].name # Items[i].name)
    BY OtherObject, ItemFacts
  <2>. QED  BY <1>2, <2>1 DEF Holds, Kinds
<1>. QED  BY <1>4, <1>6, <1>7

LEMMA ReleaseEffect ==
  ASSUME WorldTyped, NEW i \in DOMAIN Items, UNCHANGED <<tag, package, docs, visible, delivered>>,
         ReleasesPersist,
         \A j \in DOMAIN Items :
           j # i /\ Items[j].kind \in {"draft", "asset", "finalize"} /\ Holds(Items[j])'
             => Holds(Items[j])
  PROVE  /\ Persists /\ WorldTyped'
         /\ Items[i].kind \in {"draft", "asset", "finalize"} => OnlyHolds(i)
<1>1. releases' \in Seq(Release)
  BY DEF ReleasesPersist
<1>2. Persists /\ WorldTyped'
  BY <1>1 DEF Persists, WorldTyped
<1>3. ASSUME Items[i].kind \in {"draft", "asset", "finalize"} PROVE OnlyHolds(i)
  <2>. SUFFICES ASSUME NEW j \in DOMAIN Items, j # i, Holds(Items[j])'
                PROVE  Holds(Items[j])
    BY DEF OnlyHolds
  <2>1. Items[j].kind \in Kinds
    BY ItemFacts
  <2>. QED  BY <2>1 DEF Holds, Kinds
<1>. QED  BY <1>2, <1>3

LEMMA DraftEffect ==
  ASSUME WorldTyped, NEW i \in DOMAIN Items, NEW r, NEW rest,
         Items[i].kind = "draft", RequestFor(Items[i], r), Commits(r, rest)
  PROVE  Persists /\ WorldTyped' /\ OnlyHolds(i) /\ releases' # <<>>
<1>1. r = Request("draft")
  BY DEF RequestFor
<1>2. r.op = "draft"
  BY <1>1 DEF Request
<1>3. UNCHANGED <<tag, package, docs, visible, delivered>>
      /\ releases' = Append(releases, NewDraft(TRUE))
  BY <1>2 DEF Commits
<1>4. NewDraft(TRUE) \in Release /\ NewDraft(TRUE).draft
      /\ \A a \in Assets : NewDraft(TRUE).assets[a] = "none"
  BY DEF NewDraft, Release, AssetHeld, Held
<1>5. PICK new \in Release : new = NewDraft(TRUE)
  BY <1>4
<1>6. /\ ReleasesPersist /\ releases' # <<>>
      /\ DOMAIN releases' = DOMAIN releases \cup {Len(releases) + 1}
      /\ \A id \in DOMAIN releases : releases'[id] = releases[id]
      /\ releases'[Len(releases) + 1] = new
  BY <1>3, <1>5, OneReleaseMore DEF WorldTyped
<1>7. new.draft /\ \A a \in Assets : new.assets[a] = "none"
  BY <1>4, <1>5
<1>8. \A id \in DOMAIN releases' :
        \/ id \in DOMAIN releases /\ releases'[id] = releases[id]
        \/ releases'[id].draft /\ \A a \in Assets : releases'[id].assets[a] = "none"
  BY <1>6, <1>7
<1>9. ASSUME NEW j \in DOMAIN Items, j # i, Items[j].kind \in {"draft", "asset", "finalize"},
             Holds(Items[j])'
      PROVE  Holds(Items[j])
  <2>1. Items[j].kind # "draft"
    BY <1>9, OtherObject
  <2>2. CASE Items[j].kind = "asset"
    <3>1. Items[j].name \in Assets
      BY <2>2, ItemFacts
    <3>2. PICK id \in DOMAIN releases' :
            releases'[id].mine /\ releases'[id].assets[Items[j].name] = "mine"
      BY <1>9, <2>2 DEF Holds
    <3>3. id \in DOMAIN releases /\ releases'[id] = releases[id]
      BY <1>8, <3>1, <3>2
    <3>. QED  BY <2>2, <3>2, <3>3 DEF Holds
  <2>3. CASE Items[j].kind = "finalize"
    <3>1. PICK id \in DOMAIN releases' : releases'[id].mine /\ ~releases'[id].draft
      BY <1>9, <2>3 DEF Holds
    <3>2. id \in DOMAIN releases /\ releases'[id] = releases[id]
      BY <1>8, <3>1
    <3>. QED  BY <2>3, <3>1, <3>2 DEF Holds
  <2>. QED  BY <1>9, <2>1, <2>2, <2>3
<1>10. Persists /\ WorldTyped' /\ OnlyHolds(i)
  BY <1>3, <1>6, <1>9, ReleaseEffect
<1>. QED  BY <1>6, <1>10

LEMMA UploadEffect ==
  ASSUME WorldTyped, NEW i \in DOMAIN Items, NEW id \in DOMAIN releases,
         Items[i].kind = "asset", releases[id].assets[Items[i].name] = "none",
         SetAsset(id, Items[i].name, "mine"),
         UNCHANGED <<tag, package, docs, visible, delivered>>
  PROVE  /\ Persists /\ WorldTyped' /\ OnlyHolds(i)
         /\ id \in DOMAIN releases' /\ releases'[id].assets[Items[i].name] = "mine"
<1>1. Items[i].name \in Assets
  BY ItemFacts
<1>2. PICK a \in Assets : a = Items[i].name
  BY <1>1
<1>3. /\ ReleasesPersist
      /\ DOMAIN releases' = DOMAIN releases
      /\ (\A k \in DOMAIN releases : k # id => releases'[k] = releases[k])
      /\ releases'[id].mine = releases[id].mine
      /\ releases'[id].draft = releases[id].draft
      /\ releases'[id].assets = [releases[id].assets EXCEPT ![a] = "mine"]
  BY <1>2, AssetAppears DEF WorldTyped
<1>4. releases[id] \in Release
  BY ElementOfSeq DEF WorldTyped
<1>5. \A b \in Assets : releases'[id].assets[b] = IF b = a THEN "mine" ELSE releases[id].assets[b]
  BY <1>3, <1>4 DEF Release
<1>6. ASSUME NEW j \in DOMAIN Items, j # i, Items[j].kind \in {"draft", "asset", "finalize"},
             Holds(Items[j])'
      PROVE  Holds(Items[j])
  <2>1. CASE Items[j].kind = "asset"
    <3>1. Items[j].name \in Assets /\ Items[j].name # a
      BY <1>2, <1>6, <2>1, ItemFacts, OtherObject
    <3>2. PICK k \in DOMAIN releases' :
            releases'[k].mine /\ releases'[k].assets[Items[j].name] = "mine"
      BY <1>6, <2>1 DEF Holds
    <3>3. k \in DOMAIN releases /\ releases[k].mine /\ releases[k].assets[Items[j].name] = "mine"
      <4>1. k \in DOMAIN releases
        BY <1>3, <3>2
      <4>2. CASE k = id
        BY <1>3, <1>5, <3>1, <3>2, <4>2
      <4>3. CASE k # id
        BY <1>3, <3>2, <4>1, <4>3
      <4>. QED  BY <4>1, <4>2, <4>3
    <3>. QED  BY <2>1, <3>3 DEF Holds
  <2>2. CASE Items[j].kind = "draft"
    <3>1. PICK k \in DOMAIN releases' : releases'[k].mine
      BY <1>6, <2>2 DEF Holds
    <3>2. k \in DOMAIN releases /\ releases[k].mine
      BY <1>3, <3>1
    <3>. QED  BY <2>2, <3>2 DEF Holds
  <2>3. CASE Items[j].kind = "finalize"
    <3>1. PICK k \in DOMAIN releases' : releases'[k].mine /\ ~releases'[k].draft
      BY <1>6, <2>3 DEF Holds
    <3>2. k \in DOMAIN releases /\ releases[k].mine /\ ~releases[k].draft
      BY <1>3, <3>1
    <3>. QED  BY <2>3, <3>2 DEF Holds
  <2>. QED  BY <1>6, <2>1, <2>2, <2>3
<1>7. Persists /\ WorldTyped' /\ OnlyHolds(i)
  BY <1>3, <1>6, ReleaseEffect
<1>. QED  BY <1>2, <1>3, <1>5, <1>7

LEMMA DeleteEffect ==
  ASSUME WorldTyped, NEW i \in DOMAIN Items, NEW id \in DOMAIN releases,
         Items[i].kind = "asset", releases[id].assets[Items[i].name] = "unfinished",
         releases' = [releases EXCEPT ![id].assets[Items[i].name] = "none",
                                      ![id].deleted[Items[i].name] = @ + 1],
         UNCHANGED <<tag, package, docs, visible, delivered>>
  PROVE  Persists /\ WorldTyped' /\ NothingNew
<1>1. Items[i].name \in Assets
  BY ItemFacts
<1>2. PICK a \in Assets : a = Items[i].name
  BY <1>1
<1>3. /\ ReleasesPersist
      /\ DOMAIN releases' = DOMAIN releases
      /\ (\A k \in DOMAIN releases : k # id => releases'[k] = releases[k])
      /\ releases'[id].mine = releases[id].mine
      /\ releases'[id].draft = releases[id].draft
      /\ releases'[id].assets = [releases[id].assets EXCEPT ![a] = "none"]
  BY <1>2, AssetDisappears DEF WorldTyped
<1>4. releases[id] \in Release
  BY ElementOfSeq DEF WorldTyped
<1>5. \A b \in Assets : releases'[id].assets[b] = IF b = a THEN "none" ELSE releases[id].assets[b]
  BY <1>3, <1>4 DEF Release
<1>6. NoReleaseGains
  <2>. SUFFICES ASSUME NEW k \in DOMAIN releases', releases'[k].mine
                PROVE  /\ k \in DOMAIN releases /\ releases[k].mine
                       /\ ~releases'[k].draft => ~releases[k].draft
                       /\ \A b \in Assets :
                            releases'[k].assets[b] = "mine" => releases[k].assets[b] = "mine"
    BY DEF NoReleaseGains
  <2>1. k \in DOMAIN releases
    BY <1>3
  <2>2. CASE k = id
    <3>1. releases[k].mine /\ (~releases'[k].draft => ~releases[k].draft)
      BY <1>3, <2>2
    <3>2. \A b \in Assets :
            releases'[k].assets[b] = "mine" => releases[k].assets[b] = "mine"
      BY <1>5, <2>2
    <3>. QED  BY <2>1, <3>1, <3>2
  <2>3. CASE k # id
    <3>1. releases'[k] = releases[k]
      BY <1>3, <2>1, <2>3
    <3>. QED  BY <2>1, <3>1
  <2>. QED  BY <2>2, <2>3
<1>7. ASSUME NEW j \in DOMAIN Items, Holds(Items[j])'
      PROVE  Holds(Items[j])
  <2>1. Items[j].kind \in Kinds
    BY ItemFacts
  <2>2. CASE Items[j].kind \in {"draft", "asset", "finalize"}
    BY <1>6, <1>7, <2>2, NoGain
  <2>3. CASE Items[j].kind \in {"tag", "package", "docs", "notify"}
    BY <1>7, <2>3 DEF Holds
  <2>. QED  BY <2>1, <2>2, <2>3 DEF Kinds
<1>8. NothingNew
  BY <1>7 DEF NothingNew
<1>9. Persists /\ WorldTyped'
  <2>1. releases' \in Seq(Release)
    BY <1>3 DEF ReleasesPersist
  <2>. QED  BY <1>3, <2>1 DEF Persists, WorldTyped
<1>. QED  BY <1>8, <1>9

LEMMA FinalizeEffect ==
  ASSUME WorldTyped, NEW i \in DOMAIN Items, NEW id \in DOMAIN releases,
         Items[i].kind = "finalize", releases' = [releases EXCEPT ![id].draft = FALSE],
         UNCHANGED <<tag, package, docs, visible, delivered>>
  PROVE  /\ Persists /\ WorldTyped' /\ OnlyHolds(i)
         /\ id \in DOMAIN releases' /\ ~releases'[id].draft
<1>1. /\ ReleasesPersist
      /\ DOMAIN releases' = DOMAIN releases
      /\ (\A k \in DOMAIN releases : k # id => releases'[k] = releases[k])
      /\ releases'[id].mine = releases[id].mine
      /\ ~releases'[id].draft
      /\ releases'[id].assets = releases[id].assets
  BY FinalizedNow DEF WorldTyped
<1>2. ASSUME NEW j \in DOMAIN Items, j # i, Items[j].kind \in {"draft", "asset", "finalize"},
             Holds(Items[j])'
      PROVE  Holds(Items[j])
  <2>1. Items[j].kind # "finalize"
    BY <1>2, OtherObject
  <2>2. CASE Items[j].kind = "asset"
    <3>2. PICK k \in DOMAIN releases' :
            releases'[k].mine /\ releases'[k].assets[Items[j].name] = "mine"
      BY <1>2, <2>2 DEF Holds
    <3>3. k \in DOMAIN releases /\ releases[k].mine /\ releases[k].assets[Items[j].name] = "mine"
      BY <1>1, <3>2
    <3>. QED  BY <2>2, <3>3 DEF Holds
  <2>3. CASE Items[j].kind = "draft"
    <3>1. PICK k \in DOMAIN releases' : releases'[k].mine
      BY <1>2, <2>3 DEF Holds
    <3>2. k \in DOMAIN releases /\ releases[k].mine
      BY <1>1, <3>1
    <3>. QED  BY <2>3, <3>2 DEF Holds
  <2>. QED  BY <1>2, <2>1, <2>2, <2>3
<1>3. Persists /\ WorldTyped' /\ OnlyHolds(i)
  BY <1>1, <1>2, ReleaseEffect
<1>. QED  BY <1>1, <1>3

LEMMA RequestEffect ==
  ASSUME WorldTyped, NEW i \in DOMAIN Items, NEW r, NEW rest,
         RequestFor(Items[i], r), Accepts(r), Commits(r, rest)
  PROVE  Persists /\ WorldTyped' /\ OnlyHolds(i)
<1>1. Items[i].kind \in Kinds
  BY ItemFacts
<1>2. CASE Items[i].kind \in {"tag", "package", "docs"}
  BY <1>2, RegistryEffect
<1>3. CASE Items[i].kind = "notify"
  BY <1>3, NotifyEffect
<1>4. CASE Items[i].kind = "draft"
  BY <1>4, DraftEffect
<1>5. CASE Items[i].kind = "asset"
  <2>1. PICK id \in DOMAIN releases :
          \/ r = UploadRequest(id, Items[i].name)
          \/ \E n \in Nat :
               /\ r = DeleteRequest(id, Items[i].name, n)
               /\ n <= releases[id].deleted[Items[i].name]
               /\ n = releases[id].deleted[Items[i].name]
                    => releases[id].assets[Items[i].name] = "unfinished"
    BY <1>5 DEF RequestFor
  <2>2. CASE r = UploadRequest(id, Items[i].name)
    <3>1. r.op = "upload" /\ r.release = id /\ r.asset = Items[i].name
      BY <2>2 DEF UploadRequest
    <3>2. releases[id].assets[Items[i].name] = "none"
      BY <3>1 DEF Accepts
    <3>3. SetAsset(id, Items[i].name, "mine")
          /\ UNCHANGED <<tag, package, docs, visible, delivered>>
      BY <3>1 DEF Commits
    <3>. QED  BY <1>5, <3>2, <3>3, UploadEffect
  <2>3. ASSUME NEW n \in Nat,
               r = DeleteRequest(id, Items[i].name, n),
               n = releases[id].deleted[Items[i].name]
                    => releases[id].assets[Items[i].name] = "unfinished"
        PROVE  Persists /\ WorldTyped' /\ OnlyHolds(i)
    <3>1. r.op = "delete" /\ r.release = id /\ r.asset = Items[i].name /\ r.nth = n
      BY <2>3 DEF DeleteRequest
    <3>2. releases[id].assets[Items[i].name] = "unfinished"
      BY <2>3, <3>1 DEF Accepts
    <3>3. /\ releases' = [releases EXCEPT ![id].assets[Items[i].name] = "none",
                                          ![id].deleted[Items[i].name] = @ + 1]
          /\ UNCHANGED <<tag, package, docs, visible, delivered>>
      BY <3>1 DEF Commits
    <3>4. Persists /\ WorldTyped' /\ NothingNew
      BY <1>5, <3>2, <3>3, DeleteEffect
    <3>. QED  BY <3>4 DEF NothingNew, OnlyHolds
  <2>. QED  BY <2>1, <2>2, <2>3
<1>6. CASE Items[i].kind = "finalize"
  <2>1. PICK id \in DOMAIN releases : r = ReleaseRequest("finalize", id)
    BY <1>6 DEF RequestFor
  <2>2. r.op = "finalize" /\ r.release = id
    BY <2>1 DEF ReleaseRequest
  <2>3. /\ releases' = [releases EXCEPT ![id].draft = FALSE]
        /\ UNCHANGED <<tag, package, docs, visible, delivered>>
    BY <2>2 DEF Commits
  <2>. QED  BY <1>6, <2>3, FinalizeEffect
<1>. QED  BY <1>1, <1>2, <1>3, <1>4, <1>5, <1>6 DEF Kinds

LEMMA NothingNewAmongReleases ==
  ASSUME UNCHANGED <<delivered>>, NoReleaseGains,
         tag' = "mine" => tag = "mine", package' = "mine" => package = "mine",
         docs' = "mine" => docs = "mine"
  PROVE  NothingNew
<1>. SUFFICES ASSUME NEW j \in DOMAIN Items, Holds(Items[j])'
              PROVE  Holds(Items[j])
  BY DEF NothingNew
<1>1. Items[j].kind \in Kinds
  BY ItemFacts
<1>2. CASE Items[j].kind \in {"draft", "asset", "finalize"}
  BY <1>2, NoGain
<1>3. CASE Items[j].kind \in {"tag", "package", "docs", "notify"}
  BY <1>3 DEF Holds
<1>. QED  BY <1>1, <1>2, <1>3 DEF Kinds

LEMMA SameReleases ==
  ASSUME WorldTyped, UNCHANGED releases
  PROVE  ReleasesPersist /\ NoReleaseGains
BY NoReleaseChanges DEF WorldTyped, NoReleaseGains

LEMMA BreakOffEffect ==
  ASSUME WorldTyped, NEW i \in DOMAIN Items, NEW r, RequestFor(Items[i], r), BreaksOff(r)
  PROVE  Persists /\ WorldTyped' /\ NothingNew /\ sent' = sent
<1>1. Items[i].kind \in Kinds
  BY ItemFacts
<1>2. r.op = "upload"
  BY DEF BreaksOff
<1>3. Items[i].kind = "asset"
  <2>1. CASE Items[i].kind \in {"tag", "draft", "package", "docs"}
    <3>1. r = Request(Items[i].kind)
      BY <2>1 DEF RequestFor
    <3>. QED  BY <1>2, <2>1, <3>1 DEF Request
  <2>2. CASE Items[i].kind = "finalize"
    <3>1. PICK id \in DOMAIN releases : r = ReleaseRequest("finalize", id)
      BY <2>2 DEF RequestFor
    <3>. QED  BY <1>2, <3>1 DEF ReleaseRequest
  <2>3. CASE Items[i].kind = "notify"
    <3>1. r = NotifyRequest(Items[i].name)
      BY <2>3 DEF RequestFor
    <3>. QED  BY <1>2, <3>1 DEF NotifyRequest
  <2>. QED  BY <1>1, <2>1, <2>2, <2>3 DEF Kinds
<1>4. PICK id \in DOMAIN releases :
        r = UploadRequest(id, Items[i].name)
        \/ \E n \in Nat : r = DeleteRequest(id, Items[i].name, n)
  BY <1>3 DEF RequestFor
<1>5. r = UploadRequest(id, Items[i].name)
  BY <1>2, <1>4 DEF DeleteRequest
<1>6. r.release = id /\ r.asset = Items[i].name
  BY <1>5 DEF UploadRequest
<1>7. PICK a \in Assets : a = Items[i].name
  BY <1>3, ItemFacts
<1>8. releases[id].assets[a] = "none" /\ SetAsset(id, a, "unfinished")
      /\ UNCHANGED <<tag, package, docs, visible, delivered, sent>>
  BY <1>2, <1>6, <1>7 DEF BreaksOff, Accepts
<1>9. /\ ReleasesPersist
      /\ DOMAIN releases' = DOMAIN releases
      /\ \A k \in DOMAIN releases : k # id => releases'[k] = releases[k]
      /\ releases'[id].mine = releases[id].mine
      /\ releases'[id].draft = releases[id].draft
      /\ releases'[id].assets = [releases[id].assets EXCEPT ![a] = "unfinished"]
  BY <1>8, AssetAppears DEF WorldTyped
<1>10. releases[id] \in Release
  BY ElementOfSeq DEF WorldTyped
<1>11. \A b \in Assets :
         releases'[id].assets[b] = IF b = a THEN "unfinished" ELSE releases[id].assets[b]
  BY <1>9, <1>10 DEF Release
<1>12. NoReleaseGains
  BY <1>9, <1>11 DEF NoReleaseGains
<1>13. NothingNew
  BY <1>8, <1>12, NothingNewAmongReleases
<1>14. releases' \in Seq(Release)
  BY <1>9 DEF ReleasesPersist
<1>. QED  BY <1>8, <1>9, <1>13, <1>14 DEF Persists, WorldTyped

LEMMA SurfacesEffect ==
  ASSUME WorldTyped, NEW what \in {"package", "docs"}, Surfaces(what)
  PROVE  Persists /\ WorldTyped' /\ NothingNew /\ sent' = sent
<1>1. UNCHANGED <<tag, package, docs, releases, delivered, sent>>
      /\ visible' = visible \cup {what}
      /\ (IF what = "package" THEN package ELSE docs) # "none"
  BY DEF Surfaces
<1>2. ReleasesPersist /\ NoReleaseGains
  BY <1>1, SameReleases
<1>3. NothingNew
  BY <1>1, <1>2, NothingNewAmongReleases
<1>4. WorldTyped'
  BY <1>1 DEF WorldTyped
<1>. QED  BY <1>1, <1>2, <1>3, <1>4 DEF Persists

(* Others complete nothing of the Candidate's, unless a person publishes   *)
(* its draft.                                                              *)
LEMMA RivalEffect ==
  ASSUME WorldTyped, NEW what \in Rivals, RivalActs(what)
  PROVE  /\ Persists /\ WorldTyped' /\ sent' = sent
         /\ "finalize" \notin Rivals => NothingNew
<1>1. what \in {"tag", "package", "docs", "release", "asset", "extra", "finalize"}
  BY WorldAssumption
<1>2. UNCHANGED <<visible, delivered, sent>>
  BY DEF RivalActs
<1>3. CASE what \in {"tag", "package", "docs"}
  <2>1. UNCHANGED releases
    BY <1>3 DEF RivalActs
  <2>2. ReleasesPersist /\ NoReleaseGains
    BY <2>1, SameReleases
  <2>3. /\ tag' = tag \/ (tag = "none" /\ tag' = "other")
        /\ package' = package \/ (package = "none" /\ package' = "other")
        /\ docs' = docs \/ (docs = "none" /\ docs' = "other")
    BY <1>3 DEF RivalActs
  <2>4. Persists
    BY <1>2, <2>2, <2>3 DEF Persists
  <2>5. WorldTyped'
    BY <1>2, <2>1, <2>3 DEF WorldTyped, Held
  <2>6. NothingNew
    BY <1>2, <2>2, <2>3, NothingNewAmongReleases
  <2>. QED  BY <1>2, <2>4, <2>5, <2>6
<1>4. ASSUME UNCHANGED <<tag, package, docs>>, ReleasesPersist
      PROVE  Persists /\ WorldTyped'
  <2>1. releases' \in Seq(Release)
    BY <1>4 DEF ReleasesPersist
  <2>. QED  BY <1>2, <1>4, <2>1 DEF Persists, WorldTyped
<1>5. ASSUME UNCHANGED <<tag, package, docs>>, NoReleaseGains
      PROVE  NothingNew
  BY <1>2, <1>5, NothingNewAmongReleases
<1>6. CASE what = "release"
  <2>1. UNCHANGED <<tag, package, docs>> /\ releases' = Append(releases, NewDraft(FALSE))
    BY <1>6 DEF RivalActs
  <2>2. NewDraft(FALSE) \in Release /\ ~NewDraft(FALSE).mine
    BY DEF NewDraft, Release, AssetHeld, Held
  <2>3. PICK new \in Release : new = NewDraft(FALSE)
    BY <2>2
  <2>4. /\ ReleasesPersist
        /\ DOMAIN releases' = DOMAIN releases \cup {Len(releases) + 1}
        /\ \A id \in DOMAIN releases : releases'[id] = releases[id]
        /\ releases'[Len(releases) + 1] = new
    BY <2>1, <2>3, OneReleaseMore DEF WorldTyped
  <2>5. NoReleaseGains
    BY <2>2, <2>3, <2>4 DEF NoReleaseGains
  <2>. QED  BY <1>2, <1>4, <1>5, <2>1, <2>4, <2>5
<1>7. CASE what = "asset"
  <2>1. UNCHANGED <<tag, package, docs>>
    BY <1>7 DEF RivalActs
  <2>2. PICK id \in DOMAIN releases, a \in Assets :
          releases[id].assets[a] = "none" /\ SetAsset(id, a, "other")
    BY <1>7 DEF RivalActs
  <2>3. /\ ReleasesPersist
        /\ DOMAIN releases' = DOMAIN releases
        /\ \A k \in DOMAIN releases : k # id => releases'[k] = releases[k]
        /\ releases'[id].mine = releases[id].mine
        /\ releases'[id].draft = releases[id].draft
        /\ releases'[id].assets = [releases[id].assets EXCEPT ![a] = "other"]
    BY <2>2, AssetAppears DEF WorldTyped
  <2>4. releases[id] \in Release
    BY ElementOfSeq DEF WorldTyped
  <2>5. \A b \in Assets :
          releases'[id].assets[b] = IF b = a THEN "other" ELSE releases[id].assets[b]
    BY <2>3, <2>4 DEF Release
  <2>6. NoReleaseGains
    BY <2>3, <2>5 DEF NoReleaseGains
  <2>. QED  BY <1>2, <1>4, <1>5, <2>1, <2>3, <2>6
<1>8. CASE what = "extra"
  <2>1. UNCHANGED <<tag, package, docs>>
    BY <1>8 DEF RivalActs
  <2>2. PICK id \in DOMAIN releases, held \in {"uploaded", "unfinished"} :
          releases' = [releases EXCEPT ![id].extra = held]
    BY <1>8 DEF RivalActs
  <2>3. /\ ReleasesPersist
        /\ DOMAIN releases' = DOMAIN releases
        /\ \A k \in DOMAIN releases : k # id => releases'[k] = releases[k]
        /\ releases'[id].mine = releases[id].mine
        /\ releases'[id].draft = releases[id].draft
        /\ releases'[id].assets = releases[id].assets
    BY <2>2, ExtraAppears DEF WorldTyped
  <2>4. NoReleaseGains
    BY <2>3 DEF NoReleaseGains
  <2>. QED  BY <1>2, <1>4, <1>5, <2>1, <2>3, <2>4
<1>9. CASE what = "finalize"
  <2>1. UNCHANGED <<tag, package, docs>>
    BY <1>9 DEF RivalActs
  <2>2. PICK id \in DOMAIN releases : releases' = [releases EXCEPT ![id].draft = FALSE]
    BY <1>9 DEF RivalActs
  <2>3. ReleasesPersist
    BY <2>2, FinalizedNow DEF WorldTyped
  <2>. QED  BY <1>2, <1>4, <1>9, <2>1, <2>3
<1>. QED  BY <1>1, <1>3, <1>6, <1>7, <1>8, <1>9

(***************************************************************************)
(* The inductive invariant: the world and what is in flight, what the      *)
(* reads showed, the effect under way, the attempts, and the end.          *)
(***************************************************************************)
Sound(r) == \E i \in DOMAIN Items : RequestFor(Items[i], r) /\ Rests(i)

(* Whatever may still take effect was decided on what it rests on.         *)
InFlightInv == \A r \in sent : Sound(r)

ShownType == [held : Held, draft : BOOLEAN, assets : [Assets -> AssetHeld],
              extra : BOOLEAN]
SeenType == [package : Held, docs : Held, tag : Held, release : ShownType]

(* The world still is at least what the reads of an observation showed.    *)
SeenInv ==
  LET shown == seen.release
  IN /\ seen \in SeenType
     /\ seen.package # "none" => "package" \in visible /\ package = seen.package
     /\ seen.docs # "none" => "docs" \in visible /\ docs = seen.docs
     /\ seen.tag # "none" => tag = seen.tag
     /\ shown.held = "none" => \A a \in Assets : shown.assets[a] = "none"
     /\ shown.held # "none" =>
          /\ releases # <<>>
          /\ shown.held = "mine" => releases[1].mine
          /\ ~shown.draft => ~releases[1].draft
          /\ \A a \in Assets : shown.assets[a] \in Uploaded =>
               releases[1].assets[a] = shown.assets[a]

(* The effect under way rests on what the observation showed, and its next *)
(* request addresses something that is there.                              *)
ApplyInv ==
  phase = "applying" =>
    /\ applying \in DOMAIN Items
    /\ Rests(applying)
    /\ failed = NoObject
    /\ at \in {"read", "delete", "write", "poll"}
    /\ at = "read" => Effect.kind \in {"tag", "asset", "finalize"}
    /\ at = "delete" => Effect.kind = "asset"
    /\ at = "poll" => IsRegistryEffect
    /\ at \in {"delete", "write"} => RequestFor(Effect, WriteRequest)
    /\ at \in {"delete", "write"} /\ Effect.kind \in {"asset", "finalize"} =>
         readFrom.id = 1 /\ 1 \in DOMAIN releases

Classes == {"Internal", "PolicyOrApproval", "ImmutableStateConflict",
            "TemporaryExternal", "Hook", "PartialRelease"}

StopInv ==
  /\ phase \in {"observing", "applying", "stopped"}
  /\ phase # "stopped" => stop = Running /\ exit = Unset
  /\ phase = "observing" /\ failed # NoObject => cause \in Classes
  /\ at \in {"read", "delete", "write", "poll"} => phase = "applying"

(* What the reads made so far have to show of a settled object.            *)
PackageShown == at \in {"docs", "tag", "release", "hooks"} => seen.package # "none"
DocsShown == at \in {"tag", "release", "hooks"} => seen.docs # "none"
TagShown == at \in {"release", "hooks"} => seen.tag # "none"
DraftShown == at = "hooks" => seen.release.held # "none"
AssetShown(a) == at = "hooks" => seen.release.assets[a] \in Uploaded
FinalShown == at = "hooks" => seen.release.held # "none" /\ ~seen.release.draft

ShownSoFar(item) ==
  CASE item.kind = "tag"      -> TagShown
    [] item.kind = "draft"    -> DraftShown
    [] item.kind = "package"  -> PackageShown
    [] item.kind = "docs"     -> DocsShown
    [] item.kind = "asset"    -> AssetShown(item.name)
    [] item.kind = "finalize" -> FinalShown
    [] item.kind = "notify"   -> /\ TagShown /\ PackageShown
                                 /\ WantsDocs => DocsShown
                                 /\ WantsRelease => FinalShown

Blocking(item) == item.kind = "notify" => Required(item.name)

(* An effect that blocks and was attempted is under way, or has just       *)
(* failed, or is settled and shown: none is attempted again.               *)
Accounted(i) ==
  \/ phase = "applying" /\ i = applying
  \/ phase = "observing" /\ i = failed
  \/ /\ Settled(Items[i])
     /\ phase = "observing" => ShownSoFar(Items[i])

AttemptedInv ==
  phase # "stopped" =>
    \A i \in attempted :
      /\ i \in DOMAIN Items /\ ItemWanted(Items[i])
      /\ Blocking(Items[i]) => Accounted(i)

LiveInv ==
  /\ WorldTyped
  /\ InFlightInv
  /\ SeenInv
  /\ ApplyInv
  /\ StopInv
  /\ AttemptedInv
  /\ SuccessIsTrue

LEMMA LiveInit == Init => LiveInv
<1>. SUFFICES ASSUME Init PROVE LiveInv
  OBVIOUS
<1>. USE DEF Init
<1>1. WorldTyped
  <2>1. releases \in Seq(Release)
    BY EmptySeq DEF WorldInit
  <2>. QED  BY <2>1 DEF WorldTyped, WorldInit, Held
<1>2. InFlightInv
  BY DEF InFlightInv, WorldInit
<1>3. SeenInv
  BY DEF SeenInv, SeenType, ShownType, NothingSeen, NoShown, Held, AssetHeld
<1>4. ApplyInv /\ AttemptedInv /\ StopInv
  BY DEF ApplyInv, AttemptedInv, StopInv, RunInit
<1>5. SuccessIsTrue
  BY DEF SuccessIsTrue, Unset
<1>. QED  BY <1>1, <1>2, <1>3, <1>4, <1>5 DEF LiveInv

(***************************************************************************)
(* Every step of LiveRelease as a step of the world.                       *)
(***************************************************************************)
Ordered == NothingNew \/ \E i \in DOMAIN Items : OnlyHolds(i) /\ Rests(i)

WorldStep == Persists /\ WorldTyped' /\ InFlightInv' /\ ("finalize" \notin Rivals => Ordered)

LEMMA InFlightStays ==
  ASSUME WorldTyped, Persists, InFlightInv, \A r \in sent' : r \in sent \/ Sound(r)
  PROVE  InFlightInv'
<1>. SUFFICES ASSUME NEW r \in sent'
              PROVE  \E i \in DOMAIN Items : RequestFor(Items[i], r)' /\ Rests(i)'
  BY DEF InFlightInv, Sound
<1>1. Sound(r)
  BY DEF InFlightInv
<1>2. PICK i \in DOMAIN Items : RequestFor(Items[i], r) /\ Rests(i)
  BY <1>1 DEF Sound
<1>. QED  BY <1>2, StaysRequest, StaysRested

LEMMA WorldKept ==
  ASSUME WorldTyped, UNCHANGED <<tag, package, docs, releases, visible, delivered, rivals>>
  PROVE  Persists /\ WorldTyped' /\ NothingNew
<1>1. ReleasesPersist /\ NoReleaseGains
  BY SameReleases
<1>2. NothingNew
  BY <1>1, NothingNewAmongReleases
<1>. QED  BY <1>1, <1>2 DEF Persists, WorldTyped

(* A request for an object that what it rests on permits is committed.     *)
LEMMA CommitStep ==
  ASSUME LiveInv, NEW i \in DOMAIN Items, NEW r, NEW rest, rest \subseteq sent,
         RequestFor(Items[i], r), Rests(i), Accepts(r), Commits(r, rest)
  PROVE  WorldStep
<1>1. Persists /\ WorldTyped' /\ OnlyHolds(i)
  BY RequestEffect DEF LiveInv
<1>2. sent' = rest
  BY DEF Commits
<1>3. InFlightInv'
  BY <1>1, <1>2, InFlightStays DEF LiveInv
<1>. QED  BY <1>1, <1>3 DEF WorldStep, Ordered

(* The world stays, and more may be in flight.                             *)
LEMMA QuietStep ==
  ASSUME LiveInv, UNCHANGED <<tag, package, docs, releases, visible, delivered, rivals>>,
         \A r \in sent' : r \in sent \/ Sound(r)
  PROVE  WorldStep
<1>1. Persists /\ WorldTyped' /\ NothingNew
  BY WorldKept DEF LiveInv
<1>2. InFlightInv'
  BY <1>1, InFlightStays DEF LiveInv
<1>. QED  BY <1>1, <1>2 DEF WorldStep, Ordered

LEMMA WorldMovesStep ==
  ASSUME LiveInv, WorldNext
  PROVE  WorldStep
<1>0. WorldTyped /\ InFlightInv
  BY DEF LiveInv
<1>1. ASSUME Persists, WorldTyped', NothingNew, sent' = sent
      PROVE  WorldStep
  BY <1>0, <1>1, InFlightStays DEF WorldStep, Ordered
<1>2. ASSUME NEW r \in sent, LateCommit(r)
      PROVE  WorldStep
  <2>1. PICK i \in DOMAIN Items : RequestFor(Items[i], r) /\ Rests(i)
    BY <1>0 DEF InFlightInv, Sound
  <2>2. CASE Accepts(r) /\ Commits(r, sent \ {r})
    <3>1. sent \ {r} \subseteq sent
      OBVIOUS
    <3>. QED  BY <2>1, <2>2, <3>1, CommitStep
  <2>3. CASE ~Accepts(r) /\ sent' = sent \ {r}
             /\ UNCHANGED <<tag, package, docs, releases, visible, delivered, rivals>>
    BY <2>3, QuietStep
  <2>. QED  BY <1>2, <2>2, <2>3 DEF LateCommit
<1>3. ASSUME NEW what \in {"package", "docs"}, Surfaces(what)
      PROVE  WorldStep
  BY <1>0, <1>1, <1>3, SurfacesEffect
<1>4. ASSUME NEW what \in Rivals, RivalActs(what)
      PROVE  WorldStep
  <2>1. Persists /\ WorldTyped' /\ sent' = sent /\ ("finalize" \notin Rivals => NothingNew)
    BY <1>0, <1>4, RivalEffect
  <2>2. InFlightInv'
    BY <1>0, <2>1, InFlightStays
  <2>. QED  BY <2>1, <2>2 DEF WorldStep, Ordered
<1>. QED  BY <1>2, <1>3, <1>4 DEF WorldNext

LEMMA WritingIsSound ==
  ASSUME LiveInv, Writing
  PROVE  /\ applying \in DOMAIN Items /\ RequestFor(Items[applying], WriteRequest)
         /\ Rests(applying) /\ Sound(WriteRequest)
<1>1. /\ applying \in DOMAIN Items /\ RequestFor(Items[applying], WriteRequest)
      /\ Rests(applying)
  BY DEF LiveInv, ApplyInv, Writing, Effect
<1>. QED  BY <1>1 DEF Sound

LEMMA StepWorld ==
  ASSUME LiveInv, Next
  PROVE  WorldStep
<1>1. CASE UNCHANGED worldVars
  BY <1>1, QuietStep DEF worldVars
<1>2. CASE WriteSucceeds
  <2>1. Writing /\ Accepts(WriteRequest) /\ Commits(WriteRequest, sent)
    BY <1>2 DEF WriteSucceeds
  <2>. QED  BY <2>1, WritingIsSound, CommitStep
<1>3. CASE WriteIsLost
  <2>1. /\ Writing /\ sent' = sent \cup {WriteRequest}
        /\ UNCHANGED <<tag, package, docs, releases, visible, delivered, rivals>>
    BY <1>3 DEF WriteIsLost
  <2>2. Sound(WriteRequest)
    BY <2>1, WritingIsSound
  <2>. QED  BY <2>1, <2>2, QuietStep
<1>4. CASE UploadBreaksOff
  <2>1. Writing /\ BreaksOff(WriteRequest)
    BY <1>4 DEF UploadBreaksOff
  <2>2. applying \in DOMAIN Items /\ RequestFor(Items[applying], WriteRequest)
    BY <2>1, WritingIsSound
  <2>3. Persists /\ WorldTyped' /\ NothingNew /\ sent' = sent
    BY <2>1, <2>2, BreakOffEffect DEF LiveInv
  <2>. QED  BY <2>3, InFlightStays DEF LiveInv, WorldStep, Ordered
<1>5. CASE KilledAndRerun
  <2>1. \/ UNCHANGED sent
        \/ Writing /\ sent' = sent \cup {WriteRequest}
    BY <1>5 DEF KilledAndRerun
  <2>2. UNCHANGED <<tag, package, docs, releases, visible, delivered, rivals>>
    BY <1>5 DEF KilledAndRerun
  <2>3. \A r \in sent' : r \in sent \/ Sound(r)
    BY <2>1, WritingIsSound
  <2>. QED  BY <2>2, <2>3, QuietStep
<1>6. CASE WorldMoves
  BY <1>6, WorldMovesStep DEF WorldMoves
<1>7. CASE Observe
  BY <1>1, <1>7 DEF Observe, ReadPackage, ReadDocs, ReadTag, ReadRelease, Decide, Reads
<1>8. CASE ObserveInVain
  BY <1>1, <1>8 DEF ObserveInVain, ReadConflict, ReadFails, RequiredHookFails, Unobservable
<1>9. CASE Apply
  BY <1>1, <1>2, <1>9 DEF Apply, ApplyReadsTag, ApplyReadsNoRelease, ApplyReadsRelease,
     ApplyReadsAsset, WriteIsRefused, PollSees, PollTimesOut
<1>10. CASE ApplyInVain
  BY <1>1, <1>3, <1>4, <1>10 DEF ApplyInVain, WriteFails, ApplyReadFails
<1>11. CASE Rerun
  BY <1>1, <1>11 DEF Rerun
<1>. QED  BY <1>5, <1>6, <1>7, <1>8, <1>9, <1>10, <1>11 DEF Next

(***************************************************************************)
(* What the run knows stays true while the world moves.                    *)
(***************************************************************************)
LEMMA SeenStays ==
  ASSUME WorldTyped, Persists, SeenInv, UNCHANGED seen
  PROVE  SeenInv'
<1>1. releases # <<>> => 1 \in DOMAIN releases
  BY FirstRelease DEF WorldTyped
<1>2. \A id \in DOMAIN releases : id \in DOMAIN releases' /\ Grown(releases[id], releases'[id])
  BY DEF Persists, ReleasesPersist
<1>3. releases # <<>> => releases' # <<>> /\ Grown(releases[1], releases'[1])
  BY <1>1, <1>2
<1>4. seen'.release.held # "none" =>
        /\ releases' # <<>>
        /\ seen'.release.held = "mine" => releases'[1].mine
        /\ ~seen'.release.draft => ~releases'[1].draft
        /\ \A a \in Assets : seen'.release.assets[a] \in Uploaded =>
             releases'[1].assets[a] = seen'.release.assets[a]
  BY <1>3 DEF SeenInv, Grown
<1>5. /\ seen'.package # "none" => "package" \in visible' /\ package' = seen'.package
      /\ seen'.docs # "none" => "docs" \in visible' /\ docs' = seen'.docs
      /\ seen'.tag # "none" => tag' = seen'.tag
  BY DEF SeenInv, SeenType, Held, WorldTyped, Persists
<1>. QED  BY <1>4, <1>5 DEF SeenInv

LEMMA NothingSeenIsTrue ==
  ASSUME seen' = NothingSeen
  PROVE  SeenInv'
BY DEF SeenInv, SeenType, ShownType, NothingSeen, NoShown, Held, AssetHeld

LEMMA SuccessStays ==
  ASSUME WorldTyped, Persists, SuccessIsTrue, exit' = exit \/ exit' = Unset
  PROVE  SuccessIsTrue'
<1>. SUFFICES ASSUME exit' = 0
              PROVE  /\ tag' = "mine" /\ package' = "mine"
                     /\ WantsDocs => docs' = "mine"
                     /\ WantsRelease => \E id \in DOMAIN releases' : IsComplete(releases'[id])
                     /\ \A h \in Hooks : Required(h) => h \in delivered'
  BY DEF SuccessIsTrue
<1>1. exit = 0
  BY DEF Unset
<1>2. /\ tag = "mine" /\ package = "mine"
      /\ WantsDocs => docs = "mine"
      /\ WantsRelease => \E id \in DOMAIN releases : IsComplete(releases[id])
      /\ \A h \in Hooks : Required(h) => h \in delivered
  BY <1>1 DEF SuccessIsTrue
<1>3. ASSUME NEW id \in DOMAIN releases, IsComplete(releases[id])
      PROVE  id \in DOMAIN releases' /\ IsComplete(releases'[id])
  <2>1. id \in DOMAIN releases' /\ Grown(releases[id], releases'[id])
    BY DEF Persists, ReleasesPersist
  <2>. QED  BY <1>3, <2>1 DEF Grown, IsComplete, Uploaded
<1>. QED  BY <1>2, <1>3 DEF Persists

LEMMA ApplyStays ==
  ASSUME WorldTyped, Persists, ApplyInv, UNCHANGED <<phase, applying, failed, at, readFrom>>
  PROVE  ApplyInv'
<1>. SUFFICES ASSUME phase' = "applying"
              PROVE  /\ applying' \in DOMAIN Items
                     /\ Rests(applying)'
                     /\ failed' = NoObject
                     /\ at' \in {"read", "delete", "write", "poll"}
                     /\ at' = "read" => Effect'.kind \in {"tag", "asset", "finalize"}
                     /\ at' = "delete" => Effect'.kind = "asset"
                     /\ at' = "poll" => IsRegistryEffect'
                     /\ at' \in {"delete", "write"} => RequestFor(Effect, WriteRequest)'
                     /\ at' \in {"delete", "write"} /\ Effect'.kind \in {"asset", "finalize"} =>
                          readFrom'.id = 1 /\ 1 \in DOMAIN releases'
  BY DEF ApplyInv
<1>1. applying \in DOMAIN Items /\ Rests(applying)
  BY DEF ApplyInv
<1>2. UNCHANGED <<Effect, IsRegistryEffect, WriteRequest>>
  BY DEF Effect, IsRegistryEffect, WriteRequest
<1>3. Rests(applying)'
  <2>1. PICK i \in DOMAIN Items : i = applying
    BY <1>1
  <2>2. Rests(i)'
    BY <1>1, <2>1, StaysRested
  <2>3. i' = i /\ applying' = i
    BY <2>1
  <2>. QED  BY <2>2, <2>3 DEF Rests
<1>4. ASSUME at' \in {"delete", "write"}
      PROVE  RequestFor(Effect, WriteRequest)'
  <2>1. PICK i \in DOMAIN Items : i = applying
    BY <1>1
  <2>2. PICK r : r = WriteRequest
    OBVIOUS
  <2>3. RequestFor(Items[i], r)
    BY <1>4, <2>1, <2>2 DEF ApplyInv, Effect
  <2>4. RequestFor(Items[i], r)'
    BY <2>3, StaysRequest
  <2>5. WriteRequest' = r /\ Effect' = Items[i]
    BY <1>2, <2>1, <2>2 DEF Effect
  <2>. QED  BY <2>4, <2>5 DEF RequestFor
<1>5. 1 \in DOMAIN releases => 1 \in DOMAIN releases'
  BY DEF Persists, ReleasesPersist
<1>. QED  BY <1>1, <1>2, <1>3, <1>4, <1>5 DEF ApplyInv

LEMMA AttemptedStays ==
  ASSUME WorldTyped, Persists, AttemptedInv,
         UNCHANGED <<phase, attempted, applying, failed, at, seen>>
  PROVE  AttemptedInv'
<1>. SUFFICES ASSUME phase' # "stopped", NEW i \in attempted'
              PROVE  /\ i \in DOMAIN Items /\ ItemWanted(Items[i])
                     /\ Blocking(Items[i]) => Accounted(i)'
  BY DEF AttemptedInv
<1>1. /\ i \in DOMAIN Items /\ ItemWanted(Items[i])
      /\ Blocking(Items[i]) => Accounted(i)
  BY DEF AttemptedInv
<1>2. ShownSoFar(Items[i]) => ShownSoFar(Items[i])'
  BY DEF ShownSoFar, TagShown, PackageShown, DocsShown, DraftShown, AssetShown, FinalShown
<1>3. Settled(Items[i]) => Settled(Items[i])'
  BY <1>1, StaysSettled
<1>. QED  BY <1>1, <1>2, <1>3 DEF Accounted

LEMMA StopStays ==
  ASSUME StopInv, UNCHANGED <<phase, failed, stop, exit, cause, at>>
  PROVE  StopInv'
BY DEF StopInv

LEMMA OnlyTheWorldMoves ==
  ASSUME LiveInv, WorldStep, UNCHANGED <<decisionVars, targetVars>>
  PROVE  LiveInv'
<1>. USE DEF LiveInv, WorldStep, decisionVars, targetVars
<1>1. SeenInv' /\ SuccessIsTrue'
  BY SeenStays, SuccessStays
<1>2. ApplyInv'
  BY ApplyStays
<1>3. AttemptedInv'
  BY AttemptedStays
<1>4. StopInv'
  BY StopStays
<1>. QED  BY <1>1, <1>2, <1>3, <1>4

(***************************************************************************)
(* The steps of an apply.                                                  *)
(***************************************************************************)
LEMMA FreshReads ==
  ASSUME at' = "package", NEW i \in DOMAIN Items
  PROVE  ShownSoFar(Items[i])'
<1>1. /\ PackageShown' /\ DocsShown' /\ TagShown' /\ DraftShown' /\ FinalShown'
      /\ \A a : AssetShown(a)'
  BY DEF PackageShown, DocsShown, TagShown, DraftShown, FinalShown, AssetShown
<1>2. Items[i].kind \in Kinds
  BY ItemFacts
<1>. QED  BY <1>1, <1>2 DEF ShownSoFar, Kinds

LEMMA ApplyEnds ==
  ASSUME LiveInv, WorldStep, NEW succeeded \in BOOLEAN, Applied(succeeded),
         at' = "package", UNCHANGED <<seen, exit>>,
         NEW now \in DOMAIN Items, applying = now, succeeded => Settled(Items[now])',
         ~succeeded => cause' \in Classes
  PROVE  LiveInv'
<1>. USE DEF LiveInv, WorldStep
<1>1. /\ phase = "applying" /\ phase' = "observing" /\ UNCHANGED <<attempted, stop>>
      /\ failed' = IF succeeded THEN failed ELSE applying
  BY DEF Applied
<1>2. failed = NoObject
  BY <1>1 DEF ApplyInv
<1>3. SeenInv' /\ SuccessIsTrue'
  BY SeenStays, SuccessStays
<1>4. ApplyInv'
  BY <1>1 DEF ApplyInv
<1>5. StopInv'
  BY <1>1, <1>2 DEF StopInv
<1>6. AttemptedInv'
  <2>. SUFFICES ASSUME NEW i \in attempted'
                PROVE  /\ i \in DOMAIN Items /\ ItemWanted(Items[i])
                       /\ Blocking(Items[i]) => Accounted(i)'
    BY DEF AttemptedInv
  <2>1. /\ i \in DOMAIN Items /\ ItemWanted(Items[i])
        /\ Blocking(Items[i]) => Accounted(i)
    BY <1>1 DEF AttemptedInv
  <2>2. ShownSoFar(Items[i])'
    BY <2>1, FreshReads
  <2>3. ASSUME Blocking(Items[i]), i # applying
        PROVE  Settled(Items[i])'
    <3>1. Settled(Items[i])
      BY <1>1, <2>1, <2>3 DEF Accounted
    <3>. QED  BY <2>1, <3>1, StaysSettled
  <2>4. ASSUME i = applying
        PROVE  Accounted(i)'
    <3>1. CASE succeeded
      <4>1. Settled(Items[i])'
        BY <2>4, <3>1
      <4>. QED  BY <2>2, <4>1 DEF Accounted
    <3>2. CASE ~succeeded
      <4>1. phase' = "observing" /\ i = failed'
        BY <1>1, <2>4, <3>2
      <4>. QED  BY <4>1 DEF Accounted
    <3>. QED  BY <3>1, <3>2
  <2>. QED  BY <2>1, <2>2, <2>3, <2>4 DEF Accounted
<1>. QED  BY <1>3, <1>4, <1>5, <1>6

LEMMA SuccessEnds ==
  ASSUME LiveInv, WorldStep, ApplySucceeds,
         NEW now \in DOMAIN Items, applying = now, Settled(Items[now])'
  PROVE  LiveInv'
<1>1. Applied(TRUE) /\ at' = "package" /\ UNCHANGED <<seen, exit>>
  BY DEF ApplySucceeds
<1>. QED  BY <1>1, ApplyEnds

LEMMA FailureEnds ==
  ASSUME LiveInv, WorldStep, NEW class \in Classes, ApplyFails(class)
  PROVE  LiveInv'
<1>1. Applied(FALSE) /\ at' = "package" /\ UNCHANGED <<seen, exit>> /\ cause' = class
  BY DEF ApplyFails
<1>2. PICK now \in DOMAIN Items : applying = now
  BY <1>1 DEF Applied, LiveInv, ApplyInv
<1>. QED  BY <1>1, <1>2, ApplyEnds

(* The apply goes on to its next read, request or poll.                    *)
LEMMA ApplyGoesOn ==
  ASSUME LiveInv, WorldStep, phase = "applying",
         NEW next \in {"delete", "write", "poll"}, GoesOn(next),
         next = "delete" => Effect.kind = "asset",
         next = "poll" => IsRegistryEffect,
         next # "poll" => RequestFor(Effect, WriteRequest)',
         next # "poll" /\ Effect.kind \in {"asset", "finalize"} =>
           readFrom'.id = 1 /\ 1 \in DOMAIN releases'
  PROVE  LiveInv'
<1>. USE DEF LiveInv, WorldStep
<1>1. at' = next /\ UNCHANGED <<phase, applying, failed, attempted, stop, seen, cause, exit>>
  BY DEF GoesOn, decisionVars
<1>2. SeenInv' /\ SuccessIsTrue'
  BY <1>1, SeenStays, SuccessStays
<1>3. StopInv'
  BY <1>1 DEF StopInv
<1>4. ApplyInv'
  <2>1. applying \in DOMAIN Items /\ Rests(applying) /\ failed = NoObject
    BY DEF ApplyInv
  <2>2. Rests(applying)'
    <3>1. PICK i \in DOMAIN Items : i = applying
      BY <2>1
    <3>2. Rests(i)'
      BY <2>1, <3>1, StaysRested
    <3>3. applying' = i
      BY <1>1, <3>1
    <3>. QED  BY <3>2, <3>3 DEF Rests
  <2>3. Effect' = Effect /\ IsRegistryEffect' = IsRegistryEffect
    BY <1>1 DEF Effect, IsRegistryEffect
  <2>. QED  BY <1>1, <2>1, <2>2, <2>3 DEF ApplyInv
<1>5. AttemptedInv'
  <2>. SUFFICES ASSUME NEW i \in attempted'
                PROVE  /\ i \in DOMAIN Items /\ ItemWanted(Items[i])
                       /\ Blocking(Items[i]) => Accounted(i)'
    BY DEF AttemptedInv
  <2>1. /\ i \in DOMAIN Items /\ ItemWanted(Items[i])
        /\ Blocking(Items[i]) => Accounted(i)
    BY <1>1 DEF AttemptedInv
  <2>2. Settled(Items[i]) => Settled(Items[i])'
    BY <2>1, StaysSettled
  <2>. QED  BY <1>1, <2>1, <2>2 DEF Accounted
<1>. QED  BY <1>2, <1>3, <1>4, <1>5

LEMMA RestsOnCore ==
  ASSUME NEW i \in DOMAIN Items, Items[i].kind = "notify", Rests(i)
  PROVE  CoreSettled
<1>1. Count \in Nat /\ Final = 5 + Count /\ Len(HookList) \in Nat
  BY ListsTyped DEF Final
<1>2. DOMAIN Items = 1 .. Final + Len(HookList)
  BY Placed
<1>3. i \in Final + 1 .. Final + Len(HookList)
  BY PlacedFields
<1>4. 1 \in DOMAIN Items /\ 3 \in DOMAIN Items /\ 4 \in DOMAIN Items /\ Final \in DOMAIN Items
      /\ 1 < i /\ 3 < i /\ 4 < i /\ Final < i
  BY <1>1, <1>2, <1>3
<1>5. Items[1].kind = "tag" /\ Items[3].kind = "package" /\ Items[4].kind = "docs"
      /\ Items[Final].kind = "finalize"
  BY ItemsAre DEF Item
<1>6. 1 \in NeededStages /\ 3 \in NeededStages /\ (WantsDocs => 4 \in NeededStages)
      /\ (WantsRelease => Final \in NeededStages)
  BY <1>4, <1>5 DEF NeededStages, Indices, Needed, ItemWanted
<1>7. Settled(Items[1]) /\ Settled(Items[3]) /\ (WantsDocs => Settled(Items[4]))
      /\ (WantsRelease => Settled(Items[Final]))
  BY <1>4, <1>6 DEF Rests
<1>8. tag # "none" /\ "package" \in visible
  BY <1>5, <1>7 DEF Settled
<1>9. WantsDocs => "docs" \in visible
  BY <1>5, <1>7 DEF Settled
<1>10. WantsRelease => releases # <<>> /\ ~releases[1].draft
  BY <1>5, <1>7 DEF Settled
<1>. QED  BY <1>8, <1>9, <1>10 DEF CoreSettled

(* What a write sends.                                                     *)
LEMMA Writes ==
  ASSUME NEW i \in DOMAIN Items, applying = i, at = "write"
  PROVE  /\ Items[i].kind \in {"tag", "draft", "package", "docs"} =>
              WriteRequest = Request(Items[i].kind)
         /\ Items[i].kind = "asset" =>
              WriteRequest = UploadRequest(readFrom.id, Items[i].name)
         /\ Items[i].kind = "finalize" =>
              WriteRequest = ReleaseRequest("finalize", readFrom.id)
         /\ Items[i].kind = "notify" => WriteRequest = NotifyRequest(Items[i].name)
BY DEF WriteRequest, Effect

LEMMA NextWrites ==
  ASSUME NEW i \in DOMAIN Items, applying' = i, at' = "write",
         Items[i].kind \in {"asset", "finalize"} =>
           readFrom'.id = 1 /\ 1 \in DOMAIN releases'
  PROVE  RequestFor(Effect, WriteRequest)'
<1>1. /\ Items[i].kind \in {"tag", "draft", "package", "docs"} =>
              WriteRequest' = Request(Items[i].kind)
      /\ Items[i].kind = "asset" =>
           WriteRequest' = UploadRequest(readFrom'.id, Items[i].name)
      /\ Items[i].kind = "finalize" =>
           WriteRequest' = ReleaseRequest("finalize", readFrom'.id)
      /\ Items[i].kind = "notify" => WriteRequest' = NotifyRequest(Items[i].name)
  BY DEF WriteRequest, Effect
<1>2. Effect' = Items[i] /\ Items[i].kind \in Kinds
  BY ItemFacts DEF Effect
<1>3. CASE Items[i].kind \in {"tag", "draft", "package", "docs"}
  BY <1>1, <1>2, <1>3 DEF RequestFor
<1>4. CASE Items[i].kind = "asset"
  <2>1. WriteRequest' = UploadRequest(1, Items[i].name) /\ 1 \in DOMAIN releases'
    BY <1>1, <1>4
  <2>. QED  BY <1>2, <1>4, <2>1 DEF RequestFor
<1>5. CASE Items[i].kind = "finalize"
  <2>1. WriteRequest' = ReleaseRequest("finalize", 1) /\ 1 \in DOMAIN releases'
    BY <1>1, <1>5
  <2>. QED  BY <1>2, <1>5, <2>1 DEF RequestFor
<1>6. CASE Items[i].kind = "notify"
  BY <1>1, <1>2, <1>6 DEF RequestFor
<1>. QED  BY <1>2, <1>3, <1>4, <1>5, <1>6 DEF Kinds
LEMMA TagReadKeeps ==
  ASSUME LiveInv, WorldStep, ApplyReadsTag
  PROVE  LiveInv'
<1>1. at = "read" /\ Effect.kind = "tag" /\ UNCHANGED worldVars
  BY DEF ApplyReadsTag
<1>2. phase = "applying"
  BY <1>1 DEF LiveInv, StopInv
<1>3. PICK i \in DOMAIN Items : applying = i
  BY <1>2 DEF LiveInv, ApplyInv
<1>4. Items[i].kind = "tag" /\ Effect = Items[i]
  BY <1>1, <1>3 DEF Effect
<1>5. CASE tag = "none" /\ GoesOn("write")
  <2>1. at' = "write" /\ applying' = i
    BY <1>3, <1>5 DEF GoesOn, decisionVars
  <2>2. RequestFor(Effect, WriteRequest)'
    BY <1>4, <2>1, NextWrites
  <2>. QED  BY <1>2, <1>4, <1>5, <2>2, ApplyGoesOn
<1>6. CASE tag = "mine" /\ ApplySucceeds
  <2>1. Settled(Items[i])'
    BY <1>1, <1>4, <1>6 DEF Settled, worldVars
  <2>. QED  BY <1>3, <1>6, <2>1, SuccessEnds
<1>7. CASE tag = "other" /\ ApplyFails("TemporaryExternal")
  BY <1>7, FailureEnds DEF Classes
<1>. QED  BY <1>5, <1>6, <1>7 DEF ApplyReadsTag

LEMMA NoReleaseReadKeeps ==
  ASSUME LiveInv, WorldStep, ApplyReadsNoRelease
  PROVE  LiveInv'
BY FailureEnds DEF ApplyReadsNoRelease, Classes

LEMMA OneReleaseRead ==
  ASSUME releases \in Seq(Release), Len(releases) = 1
  PROVE  1 \in DOMAIN releases /\ releases # <<>> /\ releases[1] \in Release
<1>1. DOMAIN releases = 1 .. Len(releases)
  BY LenProperties
<1>2. 1 \in DOMAIN releases /\ releases # <<>>
  BY <1>1
<1>3. releases[1] \in Release
  BY <1>1, <1>2, ElementOfSeq
<1>. QED  BY <1>2, <1>3

LEMMA ReleaseReadKeeps ==
  ASSUME LiveInv, WorldStep, ApplyReadsRelease
  PROVE  LiveInv'
<1>1. /\ at = "read" /\ Effect.kind = "finalize" /\ UNCHANGED worldVars
      /\ Len(releases) = 1 /\ GoesOn("write") /\ readFrom' = [id |-> 1, nth |-> 0]
  BY DEF ApplyReadsRelease
<1>2. phase = "applying"
  BY <1>1 DEF LiveInv, StopInv
<1>3. PICK i \in DOMAIN Items : applying = i
  BY <1>2 DEF LiveInv, ApplyInv
<1>4. Items[i].kind = "finalize" /\ Effect = Items[i]
  BY <1>1, <1>3 DEF Effect
<1>5. 1 \in DOMAIN releases' /\ readFrom'.id = 1
  BY <1>1, OneReleaseRead DEF LiveInv, WorldTyped, worldVars
<1>6. at' = "write" /\ applying' = i
  BY <1>1, <1>3 DEF GoesOn, decisionVars
<1>7. RequestFor(Effect, WriteRequest)'
  BY <1>4, <1>5, <1>6, NextWrites
<1>. QED  BY <1>1, <1>2, <1>4, <1>5, <1>7, ApplyGoesOn

LEMMA AssetReadKeeps ==
  ASSUME LiveInv, WorldStep, ApplyReadsAsset
  PROVE  LiveInv'
<1>1. /\ at = "read" /\ Effect.kind = "asset" /\ UNCHANGED worldVars
      /\ Len(releases) = 1
  BY DEF ApplyReadsAsset
<1>2. phase = "applying"
  BY <1>1 DEF LiveInv, StopInv
<1>3. PICK i \in DOMAIN Items : applying = i
  BY <1>2 DEF LiveInv, ApplyInv
<1>4. Items[i].kind = "asset" /\ Effect = Items[i] /\ Items[i].name \in Assets
  BY <1>1, <1>3, ItemFacts DEF Effect
<1>5. 1 \in DOMAIN releases /\ releases # <<>> /\ releases[1] \in Release
      /\ releases' = releases
  BY <1>1, OneReleaseRead DEF LiveInv, WorldTyped, worldVars
<1>6. PICK name \in Assets : name = Items[i].name
  BY <1>4
<1>7. releases[1].deleted[name] \in Nat
  BY <1>5 DEF Release
<1>8. PICK r, held : r = releases[1] /\ held = r.assets[name]
  OBVIOUS
<1>9. \/ held = "mine" /\ ApplySucceeds
      \/ \E class \in Classes : ApplyFails(class)
      \/ MayDelete(r, held) /\ GoesOn("delete")
           /\ readFrom' = [id |-> 1, nth |-> r.deleted[name]]
      \/ GoesOn("write") /\ readFrom' = [id |-> 1, nth |-> 0]
  BY <1>4, <1>6, <1>8 DEF ApplyReadsAsset, Classes
<1>10. CASE held = "mine" /\ ApplySucceeds
  <2>1. Settled(Items[i])'
    BY <1>4, <1>5, <1>6, <1>8, <1>10 DEF Settled, Uploaded
  <2>. QED  BY <1>3, <1>10, <2>1, SuccessEnds
<1>11. CASE \E class \in Classes : ApplyFails(class)
  BY <1>11, FailureEnds
<1>12. CASE MayDelete(r, held) /\ GoesOn("delete")
           /\ readFrom' = [id |-> 1, nth |-> r.deleted[name]]
  <2>1. at' = "delete" /\ applying' = i
    BY <1>3, <1>12 DEF GoesOn, decisionVars
  <2>2. PICK n \in Nat : n = releases[1].deleted[name]
    BY <1>7
  <2>3. readFrom'.id = 1 /\ readFrom'.nth = n
    BY <1>8, <1>12, <2>2
  <2>4. WriteRequest' = DeleteRequest(1, name, n)
    <3>1. WriteRequest' = DeleteRequest(readFrom'.id, Items[i].name, readFrom'.nth)
      BY <1>4, <2>1 DEF WriteRequest, Effect
    <3>. QED  BY <1>6, <2>3, <3>1
  <2>5. releases[1].assets[name] = "unfinished" /\ n <= releases[1].deleted[name]
    BY <1>8, <1>12, <2>2 DEF MayDelete
  <2>6. RequestFor(Effect, WriteRequest)'
    <3>1. Effect' = Items[i]
      BY <2>1 DEF Effect
    <3>. QED  BY <1>4, <1>5, <1>6, <2>2, <2>4, <2>5, <3>1 DEF RequestFor
  <2>. QED  BY <1>1, <1>2, <1>5, <1>12, <2>3, <2>6, ApplyGoesOn
<1>13. CASE GoesOn("write") /\ readFrom' = [id |-> 1, nth |-> 0]
  <2>1. at' = "write" /\ applying' = i
    BY <1>3, <1>13 DEF GoesOn, decisionVars
  <2>2. readFrom'.id = 1
    BY <1>13
  <2>3. RequestFor(Effect, WriteRequest)'
    BY <1>4, <1>5, <2>1, <2>2, NextWrites
  <2>. QED  BY <1>2, <1>5, <1>13, <2>2, <2>3, ApplyGoesOn
<1>. QED  BY <1>9, <1>10, <1>11, <1>12, <1>13

LEMMA PollNext ==
  ASSUME LiveInv, WorldStep, Writing, IsRegistryEffect, GoesOn("poll")
  PROVE  LiveInv'
BY ApplyGoesOn DEF Writing

LEMMA WriteFailureKeeps ==
  ASSUME LiveInv, WorldStep, Writing, ApplyFails(FailureClass)
  PROVE  LiveInv'
<1>1. FailureClass \in Classes
  BY DEF FailureClass, Classes
<1>. QED  BY <1>1, FailureEnds

LEMMA WriteErrsKeeps ==
  ASSUME LiveInv, WorldStep, Writing, WriteErrs
  PROVE  LiveInv'
BY PollNext, WriteFailureKeeps DEF WriteErrs

(* A write that is accepted settles its object, or goes on to the upload   *)
(* or to the registry's answer.                                            *)
LEMMA WriteKeeps ==
  ASSUME LiveInv, WorldStep, WriteSucceeds
  PROVE  LiveInv'
<1>1. Writing /\ Accepts(WriteRequest) /\ Commits(WriteRequest, sent)
  BY DEF WriteSucceeds
<1>2. PICK i \in DOMAIN Items : applying = i
  BY <1>1, WritingIsSound
<1>3. PICK r : r = WriteRequest
  OBVIOUS
<1>4. /\ Effect = Items[i] /\ RequestFor(Items[i], r) /\ Rests(i)
      /\ Accepts(r) /\ Commits(r, sent) /\ WorldTyped
  BY <1>1, <1>2, <1>3, WritingIsSound DEF Effect, LiveInv
<1>5. phase = "applying" /\ at \in {"delete", "write"}
  BY <1>1 DEF Writing
<1>6. CASE at = "delete"
  <2>1. GoesOn("write") /\ UNCHANGED readFrom
    BY <1>6 DEF WriteSucceeds
  <2>2. at' = "write" /\ applying' = i
    BY <1>2, <2>1 DEF GoesOn, decisionVars
  <2>3. Items[i].kind = "asset" /\ readFrom.id = 1 /\ 1 \in DOMAIN releases
    BY <1>4, <1>5, <1>6 DEF LiveInv, ApplyInv
  <2>4. readFrom'.id = 1 /\ 1 \in DOMAIN releases'
    BY <2>1, <2>3 DEF WorldStep, Persists, ReleasesPersist
  <2>5. RequestFor(Effect, WriteRequest)'
    BY <2>2, <2>4, NextWrites
  <2>. QED  BY <1>5, <2>1, <2>4, <2>5, ApplyGoesOn
<1>7. CASE at = "write" /\ IsRegistryEffect
  <2>1. GoesOn("poll")
    BY <1>7 DEF WriteSucceeds
  <2>. QED  BY <1>1, <1>7, <2>1, PollNext
<1>8. CASE at = "write" /\ ~IsRegistryEffect
  <2>1. ApplySucceeds
    BY <1>8 DEF WriteSucceeds
  <2>2. Items[i].kind \in Kinds
    BY ItemFacts
  <2>3. CASE Items[i].kind = "tag"
    <3>1. r.op = "tag"
      BY <1>2, <1>3, <1>8, <2>3, Writes DEF Request
    <3>2. tag' = "mine"
      BY <1>4, <3>1 DEF Commits
    <3>3. Settled(Items[i])'
      BY <2>3, <3>2 DEF Settled
    <3>. QED  BY <1>2, <2>1, <3>3, SuccessEnds
  <2>4. CASE Items[i].kind = "draft"
    <3>1. releases' # <<>>
      BY <1>4, <2>4, DraftEffect
    <3>2. Settled(Items[i])'
      BY <2>4, <3>1 DEF Settled
    <3>. QED  BY <1>2, <2>1, <3>2, SuccessEnds
  <2>5. CASE Items[i].kind = "asset"
    <3>1. readFrom.id = 1 /\ 1 \in DOMAIN releases
      BY <1>4, <1>5, <2>5 DEF LiveInv, ApplyInv
    <3>2. r = UploadRequest(1, Items[i].name)
      BY <1>2, <1>3, <1>8, <2>5, <3>1, Writes
    <3>3. r.op = "upload" /\ r.release = 1 /\ r.asset = Items[i].name
      BY <3>2 DEF UploadRequest
    <3>4. releases[1].assets[Items[i].name] = "none" /\ SetAsset(1, Items[i].name, "mine")
          /\ UNCHANGED <<tag, package, docs, visible, delivered>>
      BY <1>4, <3>3 DEF Accepts, Commits
    <3>5. 1 \in DOMAIN releases' /\ releases'[1].assets[Items[i].name] = "mine"
      BY <1>4, <2>5, <3>1, <3>4, UploadEffect
    <3>6. releases' # <<>>
      BY <3>5
    <3>7. Settled(Items[i])'
      BY <2>5, <3>5, <3>6 DEF Settled, Uploaded
    <3>. QED  BY <1>2, <2>1, <3>7, SuccessEnds
  <2>6. CASE Items[i].kind = "finalize"
    <3>1. readFrom.id = 1 /\ 1 \in DOMAIN releases
      BY <1>4, <1>5, <2>6 DEF LiveInv, ApplyInv
    <3>2. r = ReleaseRequest("finalize", 1)
      BY <1>2, <1>3, <1>8, <2>6, <3>1, Writes
    <3>3. r.op = "finalize" /\ r.release = 1
      BY <3>2 DEF ReleaseRequest
    <3>4. releases' = [releases EXCEPT ![1].draft = FALSE]
          /\ UNCHANGED <<tag, package, docs, visible, delivered>>
      BY <1>4, <3>3 DEF Commits
    <3>5. 1 \in DOMAIN releases' /\ ~releases'[1].draft
      BY <1>4, <2>6, <3>1, <3>4, FinalizeEffect
    <3>6. releases' # <<>>
      BY <3>5
    <3>7. Settled(Items[i])'
      BY <2>6, <3>5, <3>6 DEF Settled
    <3>. QED  BY <1>2, <2>1, <3>7, SuccessEnds
  <2>7. CASE Items[i].kind = "notify"
    <3>1. r = NotifyRequest(Items[i].name)
      BY <1>2, <1>3, <1>8, <2>7, Writes
    <3>2. r.op = "notify" /\ r.hook = Items[i].name
      BY <3>1 DEF NotifyRequest
    <3>3. Items[i].name \in delivered'
      BY <1>4, <3>2 DEF Commits
    <3>4. CoreSettled
      BY <1>4, <2>7, RestsOnCore
    <3>5. CoreSettled'
      BY <1>4, <3>4, CoreStaysSettled DEF WorldStep
    <3>6. Settled(Items[i])'
      BY <2>7, <3>3, <3>5 DEF Settled
    <3>. QED  BY <1>2, <2>1, <3>6, SuccessEnds
  <2>. QED  BY <1>4, <1>8, <2>2, <2>3, <2>4, <2>5, <2>6, <2>7 DEF Kinds, IsRegistryEffect
<1>. QED  BY <1>5, <1>6, <1>7, <1>8

LEMMA PollSeesKeeps ==
  ASSUME LiveInv, WorldStep, PollSees
  PROVE  LiveInv'
<1>1. phase = "applying" /\ at = "poll" /\ Effect.kind \in visible /\ UNCHANGED worldVars
  BY DEF PollSees
<1>2. PICK i \in DOMAIN Items : applying = i
  BY <1>1 DEF LiveInv, ApplyInv
<1>3. Effect = Items[i] /\ Items[i].kind \in {"package", "docs"}
  BY <1>1, <1>2 DEF LiveInv, ApplyInv, Effect, IsRegistryEffect
<1>4. Settled(Items[i])'
  BY <1>1, <1>3 DEF Settled, worldVars
<1>5. ApplySucceeds \/ ApplyFails("TemporaryExternal")
  BY DEF PollSees
<1>6. CASE ApplySucceeds
  BY <1>2, <1>4, <1>6, SuccessEnds
<1>7. CASE ApplyFails("TemporaryExternal")
  BY <1>7, FailureEnds DEF Classes
<1>. QED  BY <1>5, <1>6, <1>7

LEMMA ApplyKeeps ==
  ASSUME LiveInv, WorldStep, Apply \/ ApplyInVain
  PROVE  LiveInv'
<1>1. CASE WriteIsRefused
  BY <1>1, WriteErrsKeeps DEF WriteIsRefused
<1>2. CASE WriteFails
  BY <1>2, WriteErrsKeeps DEF WriteFails
<1>3. CASE WriteIsLost
  BY <1>3, PollNext, WriteFailureKeeps DEF WriteIsLost
<1>4. ASSUME ApplyFails("TemporaryExternal")
      PROVE  LiveInv'
  BY <1>4, FailureEnds DEF Classes
<1>5. CASE UploadBreaksOff \/ PollTimesOut \/ ApplyReadFails
  BY <1>4, <1>5 DEF UploadBreaksOff, PollTimesOut, ApplyReadFails
<1>. QED  BY <1>1, <1>2, <1>3, <1>5, TagReadKeeps, NoReleaseReadKeeps, ReleaseReadKeeps,
             AssetReadKeeps, WriteKeeps, PollSeesKeeps DEF Apply, ApplyInVain

(***************************************************************************)
(* The reads of an observation.                                            *)
(***************************************************************************)
LEMMA ReadStep ==
  ASSUME LiveInv, WorldStep, NEW what, NEW next \in {"docs", "tag", "release", "hooks"},
         Reads(what, next), SeenInv',
         \A i \in DOMAIN Items : Settled(Items[i]) /\ ShownSoFar(Items[i])
                                   => ShownSoFar(Items[i])'
  PROVE  LiveInv'
<1>. USE DEF LiveInv, WorldStep
<1>1. /\ phase = "observing" /\ at' = next
      /\ UNCHANGED <<phase, attempted, applying, failed, stop, cause, exit>>
  BY DEF Reads, decisionVars
<1>2. SuccessIsTrue'
  BY <1>1, SuccessStays
<1>3. ApplyInv' /\ StopInv'
  BY <1>1 DEF ApplyInv, StopInv
<1>4. AttemptedInv'
  <2>. SUFFICES ASSUME NEW i \in attempted'
                PROVE  /\ i \in DOMAIN Items /\ ItemWanted(Items[i])
                       /\ Blocking(Items[i]) => Accounted(i)'
    BY DEF AttemptedInv
  <2>1. /\ i \in DOMAIN Items /\ ItemWanted(Items[i])
        /\ Blocking(Items[i]) => Accounted(i)
    BY <1>1 DEF AttemptedInv
  <2>2. Settled(Items[i]) => Settled(Items[i])'
    BY <2>1, StaysSettled
  <2>. QED  BY <1>1, <2>1, <2>2 DEF Accounted
<1>. QED  BY <1>2, <1>3, <1>4

LEMMA PackageReadKeeps ==
  ASSUME LiveInv, WorldStep, ReadPackage
  PROVE  LiveInv'
<1>1. /\ Reads("package", "docs") /\ at' = "docs" /\ UNCHANGED worldVars
      /\ seen' = [seen EXCEPT !.package = IF "package" \in visible THEN package ELSE "none"]
  BY DEF ReadPackage, Reads
<1>2. SeenInv /\ WorldTyped
  BY DEF LiveInv
<1>3. /\ seen' \in SeenType
      /\ seen'.package = IF "package" \in visible THEN package ELSE "none"
      /\ seen'.docs = seen.docs /\ seen'.tag = seen.tag /\ seen'.release = seen.release
  BY <1>1, <1>2 DEF SeenInv, SeenType, WorldTyped, Held
<1>4. SeenInv'
  BY <1>1, <1>2, <1>3 DEF SeenInv, worldVars
<1>5. ASSUME NEW i \in DOMAIN Items, Settled(Items[i])
      PROVE  ShownSoFar(Items[i])'
  <2>1. Items[i].kind \in Kinds
    BY ItemFacts
  <2>2. Items[i].kind \in {"package", "notify"} => PackageShown'
    BY <1>2, <1>3, <1>5 DEF Settled, CoreSettled, WorldTyped, PackageShown
  <2>. QED  BY <1>1, <2>1, <2>2 DEF ShownSoFar, Kinds, DocsShown, TagShown, DraftShown,
            AssetShown, FinalShown
<1>. QED  BY <1>1, <1>4, <1>5, ReadStep

LEMMA DocsReadKeeps ==
  ASSUME LiveInv, WorldStep, ReadDocs
  PROVE  LiveInv'
<1>1. /\ Reads("docs", "tag") /\ at = "docs" /\ at' = "tag" /\ UNCHANGED worldVars
      /\ seen' = [seen EXCEPT !.docs = IF "docs" \in visible THEN docs ELSE "none"]
  BY DEF ReadDocs, Reads
<1>2. SeenInv /\ WorldTyped
  BY DEF LiveInv
<1>3. /\ seen' \in SeenType
      /\ seen'.docs = IF "docs" \in visible THEN docs ELSE "none"
      /\ seen'.package = seen.package /\ seen'.tag = seen.tag /\ seen'.release = seen.release
  BY <1>1, <1>2 DEF SeenInv, SeenType, WorldTyped, Held
<1>4. SeenInv'
  BY <1>1, <1>2, <1>3 DEF SeenInv, worldVars
<1>5. ASSUME NEW i \in DOMAIN Items, Settled(Items[i]), ShownSoFar(Items[i])
      PROVE  ShownSoFar(Items[i])'
  <2>1. Items[i].kind \in Kinds
    BY ItemFacts
  <2>2. Items[i].kind = "docs" \/ (Items[i].kind = "notify" /\ WantsDocs) => DocsShown'
    BY <1>2, <1>3, <1>5 DEF Settled, CoreSettled, WorldTyped, DocsShown
  <2>3. PackageShown => PackageShown'
    BY <1>1, <1>3 DEF PackageShown
  <2>. QED  BY <1>1, <1>5, <2>1, <2>2, <2>3 DEF ShownSoFar, Kinds, TagShown, DraftShown,
            AssetShown, FinalShown
<1>. QED  BY <1>1, <1>4, <1>5, ReadStep

LEMMA TagSeenKeeps ==
  ASSUME LiveInv, WorldStep, ReadTag
  PROVE  LiveInv'
<1>1. /\ Reads("tag", "release") /\ at = "tag" /\ at' = "release" /\ UNCHANGED worldVars
      /\ seen' = [seen EXCEPT !.tag = tag]
  BY DEF ReadTag, Reads
<1>2. SeenInv /\ WorldTyped
  BY DEF LiveInv
<1>3. /\ seen' \in SeenType /\ seen'.tag = tag
      /\ seen'.package = seen.package /\ seen'.docs = seen.docs /\ seen'.release = seen.release
  BY <1>1, <1>2 DEF SeenInv, SeenType, WorldTyped, Held
<1>4. SeenInv'
  BY <1>1, <1>2, <1>3 DEF SeenInv, worldVars
<1>5. ASSUME NEW i \in DOMAIN Items, Settled(Items[i]), ShownSoFar(Items[i])
      PROVE  ShownSoFar(Items[i])'
  <2>1. Items[i].kind \in Kinds
    BY ItemFacts
  <2>2. Items[i].kind \in {"tag", "notify"} => TagShown'
    BY <1>3, <1>5 DEF Settled, CoreSettled, TagShown
  <2>3. (PackageShown => PackageShown') /\ (DocsShown => DocsShown')
    BY <1>1, <1>3 DEF PackageShown, DocsShown
  <2>. QED  BY <1>1, <1>5, <2>1, <2>2, <2>3 DEF ShownSoFar, Kinds, DraftShown, AssetShown,
            FinalShown
<1>. QED  BY <1>1, <1>4, <1>5, ReadStep

LEMMA ReleaseSeenKeeps ==
  ASSUME LiveInv, WorldStep, ReadRelease
  PROVE  LiveInv'
<1>1. /\ Reads("release", "hooks") /\ at = "release" /\ at' = "hooks" /\ UNCHANGED worldVars
      /\ seen' = [seen EXCEPT !.release =
           IF releases = <<>> THEN NoShown
           ELSE [held   |-> IF releases[1].mine THEN "mine" ELSE "other",
                 draft  |-> releases[1].draft,
                 assets |-> releases[1].assets,
                 extra  |-> releases[1].extra # "none"]]
  BY DEF ReadRelease, Reads
<1>2. SeenInv /\ WorldTyped
  BY DEF LiveInv
<1>3. releases # <<>> => releases[1] \in Release
  BY <1>2, FirstRelease, ElementOfSeq DEF WorldTyped
<1>4. NoShown \in ShownType
  BY DEF NoShown, ShownType, Held, AssetHeld
<1>5. /\ seen' \in SeenType
      /\ seen'.package = seen.package /\ seen'.docs = seen.docs /\ seen'.tag = seen.tag
      /\ releases = <<>> => seen'.release = NoShown
      /\ releases # <<>> =>
           seen'.release = [held   |-> IF releases[1].mine THEN "mine" ELSE "other",
                            draft  |-> releases[1].draft,
                            assets |-> releases[1].assets,
                            extra  |-> releases[1].extra # "none"]
  <2>1. releases # <<>> =>
          [held   |-> IF releases[1].mine THEN "mine" ELSE "other",
           draft  |-> releases[1].draft,
           assets |-> releases[1].assets,
           extra  |-> releases[1].extra # "none"] \in ShownType
    BY <1>3 DEF Release, ShownType, Held
  <2>2. seen \in SeenType
    BY <1>2 DEF SeenInv
  <2>. QED  BY <1>1, <1>4, <2>1, <2>2 DEF SeenType
<1>6. /\ releases = <<>> => /\ seen'.release.held = "none"
                            /\ \A a \in Assets : seen'.release.assets[a] = "none"
      /\ releases # <<>> => /\ seen'.release.held = IF releases[1].mine THEN "mine" ELSE "other"
                            /\ seen'.release.draft = releases[1].draft
                            /\ seen'.release.assets = releases[1].assets
  BY <1>5 DEF NoShown
<1>7. SeenInv'
  BY <1>1, <1>2, <1>5, <1>6 DEF SeenInv, worldVars
<1>8. ASSUME NEW i \in DOMAIN Items, Settled(Items[i]), ShownSoFar(Items[i])
      PROVE  ShownSoFar(Items[i])'
  <2>1. Items[i].kind \in Kinds
    BY ItemFacts
  <2>2. Items[i].kind = "draft" => DraftShown'
    BY <1>6, <1>8 DEF Settled, DraftShown
  <2>3. Items[i].kind = "asset" => AssetShown(Items[i].name)'
    BY <1>6, <1>8 DEF Settled, AssetShown
  <2>4. Items[i].kind = "finalize" \/ (Items[i].kind = "notify" /\ WantsRelease) => FinalShown'
    BY <1>6, <1>8 DEF Settled, CoreSettled, FinalShown
  <2>5. (PackageShown => PackageShown') /\ (DocsShown => DocsShown') /\ (TagShown => TagShown')
    BY <1>1, <1>5 DEF PackageShown, DocsShown, TagShown
  <2>. QED  BY <1>8, <2>1, <2>2, <2>3, <2>4, <2>5 DEF ShownSoFar, Kinds
<1>. QED  BY <1>1, <1>7, <1>8, ReadStep

(***************************************************************************)
(* The ends of a run.                                                      *)
(***************************************************************************)
LEMMA ErrorExits ==
  ASSUME NEW state, NEW class, class \in Classes \/ state = "Conflict"
  PROVE  RunErrorExit(state, class) # 0
<1>1. \A known \in Classes : ExitOf(known) \in 1 .. 7
  BY DEF Classes, ExitOf
<1>2. CASE state = "Conflict"
  BY <1>2 DEF RunErrorExit, ExitOf
<1>3. CASE state # "Conflict"
  <2>1. class \in Classes
    BY <1>3
  <2>2. (CASE state = "Conflict" -> "ImmutableStateConflict"
           [] state = "PartiallyReleased" -> "PartialRelease"
           [] state = "AwaitingApproval" -> "PolicyOrApproval"
           [] OTHER -> class) \in Classes
    BY <1>3, <2>1 DEF Classes
  <2>. QED  BY <1>1, <2>2 DEF RunErrorExit
<1>. QED  BY <1>2, <1>3

(* A run that stops with a status other than success keeps the invariant.  *)
LEMMA StopKeeps ==
  ASSUME LiveInv, WorldStep, phase' = "stopped", seen' = NothingSeen, at' = "-",
         SuccessIsTrue'
  PROVE  LiveInv'
<1>1. SeenInv'
  BY NothingSeenIsTrue
<1>2. ApplyInv' /\ StopInv' /\ AttemptedInv'
  BY DEF ApplyInv, StopInv, AttemptedInv
<1>. QED  BY <1>1, <1>2 DEF LiveInv, WorldStep

LEMMA UnobservedKeeps ==
  ASSUME LiveInv, WorldStep, NEW contradicts \in BOOLEAN, NEW class \in Classes,
         Unobservable(contradicts, class)
  PROVE  LiveInv'
<1>1. /\ phase' = "stopped" /\ stop'.kind = "Unobserved" /\ seen' = NothingSeen /\ at' = "-"
      /\ exit' = StopExit(stop', class)
  BY DEF Unobservable, ObservationFails, StopIn, Stops
<1>2. exit' # 0
  BY <1>1, ErrorExits DEF StopExit
<1>3. SuccessIsTrue'
  BY <1>2 DEF SuccessIsTrue
<1>. QED  BY <1>1, <1>3, StopKeeps

LEMMA ObserveInVainKeeps ==
  ASSUME LiveInv, WorldStep, ObserveInVain
  PROVE  LiveInv'
BY UnobservedKeeps DEF ObserveInVain, ReadConflict, ReadFails, RequiredHookFails, Classes

LEMMA BeginsKeeps ==
  ASSUME LiveInv, WorldStep, Begins
  PROVE  LiveInv'
<1>1. /\ attempted' = {} /\ failed' = NoObject /\ phase' = "observing" /\ stop' = Running
      /\ at' = "package" /\ seen' = NothingSeen /\ exit' = Unset
  BY DEF Begins, Restart
<1>2. SeenInv'
  BY <1>1, NothingSeenIsTrue
<1>3. ApplyInv' /\ StopInv' /\ AttemptedInv'
  BY <1>1 DEF ApplyInv, StopInv, AttemptedInv
<1>4. SuccessIsTrue'
  BY <1>1 DEF SuccessIsTrue, Unset
<1>. QED  BY <1>2, <1>3, <1>4 DEF LiveInv, WorldStep

(***************************************************************************)
(* The decision of an observation.                                         *)
(***************************************************************************)
Listed(known, complete) == [i \in DOMAIN Items |-> ObjectOf(Items[i], known, complete)]

LEMMA ExtraConflicts ==
  ASSUME NEW known, NEW complete, Conflicts(Objects(known, complete)) = {}
  PROVE  ~seen.release.extra
<1>. SUFFICES ASSUME seen.release.extra PROVE FALSE
  OBVIOUS
<1> DEFINE listed == Listed(known, complete)
           S == {listed[i] : i \in DOMAIN Items} \cup {Unsealed}
           before == 4 + Count
           front == SubSeq(listed, 1, before)
           back == SubSeq(listed, before + 1, Len(listed))
<1>1. DOMAIN Items = 1 .. Final + Len(HookList) /\ Count \in Nat /\ Final = 5 + Count
      /\ Len(HookList) \in Nat
  BY Placed, ListsTyped DEF Final
<1>2. listed \in [1 .. Final + Len(HookList) -> S]
  BY <1>1 DEF Listed
<1>3. Final + Len(HookList) \in Nat
  BY <1>1
<1>4. listed \in Seq(S) /\ Len(listed) = Final + Len(HookList)
  BY <1>2, <1>3, SeqDef
<1>5. Objects(known, complete) = front \o <<Unsealed>> \o back
  BY <1>1 DEF Objects, Listed, Count
<1>6. before \in Nat /\ before + 1 \in Nat /\ before + 1 <= Len(listed)
  BY <1>1, <1>4
<1>7. \A i \in 1 .. Len(listed) : listed[i] \in S
  BY <1>4, ElementOfSeq
<1>8. front \in Seq(S) /\ Len(front) = before
  <2>1. \A i \in 1 .. before : listed[i] \in S
    BY <1>4, <1>6, <1>7
  <2>2. SubSeq(listed, 1, before) \in Seq(S)
        /\ Len(SubSeq(listed, 1, before)) = IF 1 <= before THEN before - 1 + 1 ELSE 0
    BY <1>6, <2>1, SubSeqProperties
  <2>. QED  BY <1>1, <2>2
<1>9. back \in Seq(S)
  <2>1. \A i \in before + 1 .. Len(listed) : listed[i] \in S
    BY <1>4, <1>6, <1>7
  <2>. QED  BY <1>3, <1>4, <1>6, <2>1, SubSeqProperties
<1>10. Unsealed \in S
  OBVIOUS
<1> HIDE DEF S, front, back, listed, before
<1>11. <<Unsealed>> \in Seq(S) /\ Len(<<Unsealed>>) = 1 /\ <<Unsealed>>[1] = Unsealed
  BY <1>10
<1>12. PICK head : head = front \o <<Unsealed>>
  OBVIOUS
<1>13. /\ front \o <<Unsealed>> \in Seq(S)
       /\ Len(front \o <<Unsealed>>) = Len(front) + Len(<<Unsealed>>)
       /\ \A k \in 1 .. Len(<<Unsealed>>) :
            (front \o <<Unsealed>>)[Len(front) + k] = <<Unsealed>>[k]
  <2>1. front \in Seq(S) /\ <<Unsealed>> \in Seq(S)
    BY <1>8, <1>11
  <2>. QED  BY <2>1, Joined
<1>14. head \in Seq(S) /\ Len(head) = before + 1 /\ head[before + 1] = Unsealed
  <2>1. 1 \in 1 .. Len(<<Unsealed>>)
    BY <1>11
  <2>. QED  BY <1>8, <1>11, <1>12, <1>13, <2>1
<1>15. /\ head \o back \in Seq(S) /\ Len(head \o back) = Len(head) + Len(back)
       /\ \A k \in 1 .. Len(head) : (head \o back)[k] = head[k]
  <2>1. head \in Seq(S) /\ back \in Seq(S)
    BY <1>9, <1>14
  <2>. QED  BY <2>1, Joined
<1>16. PICK objs : objs = head \o back
  OBVIOUS
<1>17. Objects(known, complete) = objs
  BY <1>5, <1>12, <1>16
<1>18. before + 1 \in DOMAIN objs /\ objs[before + 1] = Unsealed
  <2>1. Len(back) \in Nat /\ before + 1 \in 1 .. Len(head)
    BY <1>6, <1>9, <1>14, LenProperties
  <2>2. DOMAIN objs = 1 .. Len(objs) /\ Len(objs) = Len(head) + Len(back)
    BY <1>15, <1>16, LenProperties
  <2>. QED  BY <1>6, <1>14, <1>15, <1>16, <2>1, <2>2
<1>19. Decision(Unsealed) = "Conflict"
  BY DEF Decision, Unsealed
<1>20. before + 1 \in Conflicts(objs)
  BY <1>18, <1>19 DEF Conflicts, Decided
<1>. QED  BY <1>17, <1>20

LEMMA ObjectsListed ==
  ASSUME NEW known, NEW complete, Conflicts(Objects(known, complete)) = {}
  PROVE  Objects(known, complete) = Listed(known, complete)
BY ExtraConflicts DEF Objects, Listed

(* What a matching object says of the world.                               *)
Confirmed(item) ==
  CASE item.kind = "tag"      -> tag = "mine"
    [] item.kind = "draft"    -> releases # <<>> /\ releases[1].mine
    [] item.kind = "package"  -> "package" \in visible /\ package = "mine"
    [] item.kind = "docs"     -> "docs" \in visible /\ docs = "mine"
    [] item.kind = "asset"    -> /\ releases # <<>> /\ releases[1].mine
                                 /\ releases[1].assets[item.name] = "mine"
    [] item.kind = "finalize" -> releases # <<>> /\ releases[1].mine /\ ~releases[1].draft
    [] item.kind = "notify"   -> item.name \in delivered /\ CoreSettled

LEMMA ConfirmedHolds ==
  ASSUME WorldTyped, NEW i \in DOMAIN Items, Confirmed(Items[i])
  PROVE  Holds(Items[i]) /\ Settled(Items[i])
<1>1. Items[i].kind \in Kinds
  BY ItemFacts
<1>2. releases # <<>> => 1 \in DOMAIN releases
  BY FirstRelease DEF WorldTyped
<1>3. CASE Items[i].kind = "tag"
  BY <1>3 DEF Confirmed, Holds, Settled
<1>4. CASE Items[i].kind = "draft"
  BY <1>2, <1>4 DEF Confirmed, Holds, Settled
<1>5. CASE Items[i].kind \in {"package", "docs"}
  BY <1>5 DEF Confirmed, Holds, Settled
<1>6. CASE Items[i].kind = "asset"
  BY <1>2, <1>6 DEF Confirmed, Holds, Settled, Uploaded
<1>7. CASE Items[i].kind = "finalize"
  BY <1>2, <1>7 DEF Confirmed, Holds, Settled
<1>8. CASE Items[i].kind = "notify"
  BY <1>8 DEF Confirmed, Holds, Settled
<1>. QED  BY <1>1, <1>3, <1>4, <1>5, <1>6, <1>7, <1>8 DEF Kinds

LEMMA CoreSeen ==
  ASSUME SeenInv, CoreReleased
  PROVE  CoreSettled
<1>1. tag # "none" /\ "package" \in visible /\ (WantsDocs => "docs" \in visible)
  BY DEF SeenInv, CoreReleased
<1>2. WantsRelease => releases # <<>> /\ ~releases[1].draft
  BY DEF SeenInv, CoreReleased
<1>. QED  BY <1>1, <1>2 DEF CoreSettled

(* What a list without conflict shows.                                     *)
LEMMA Presences ==
  ASSUME LiveInv, NEW complete, complete \subseteq delivered,
         Conflicts(Objects(CoreReleased, complete)) = {}, NEW i \in DOMAIN Items
  PROVE  LET objs == Objects(CoreReleased, complete)
         IN /\ DOMAIN objs = DOMAIN Items
            /\ objs[i] = ObjectOf(Items[i], CoreReleased, complete)
            /\ objs[i].presence \in {"Absent", "Pending", "Matches"}
            /\ i \in Owed(objs) <=> ItemWanted(Items[i]) /\ objs[i].presence # "Matches"
            /\ objs[i].blocking <=> Blocking(Items[i])
            /\ objs[i].presence = "Matches" => Confirmed(Items[i])
<1>1. PICK objs : objs = Objects(CoreReleased, complete)
  OBVIOUS
<1>2. objs = Listed(CoreReleased, complete)
  BY <1>1, ObjectsListed
<1>3. DOMAIN objs = DOMAIN Items
      /\ \A j \in DOMAIN Items : objs[j] = ObjectOf(Items[j], CoreReleased, complete)
  BY <1>2 DEF Listed
<1>4. \A j \in DOMAIN Items : objs[j].presence # "Differs"
  BY <1>1, <1>3 DEF Conflicts, Decided, Decision
<1>5. \A j \in DOMAIN Items :
        /\ objs[j].wanted = ItemWanted(Items[j])
        /\ objs[j].presence = ItemPresence(Items[j], CoreReleased, complete)
        /\ objs[j].blocking = (Items[j].kind = "notify" => Required(Items[j].name))
  BY <1>3 DEF ObjectOf
<1>6. SeenInv /\ seen \in SeenType
  BY DEF LiveInv, SeenInv
<1>7. seen.release.held # "other"
  <2>1. 2 \in DOMAIN Items /\ Items[2].kind = "draft"
    <3>1. Items[2].kind = "draft"
      BY ItemsAre DEF Item
    <3>2. 2 \in DOMAIN Items
      BY Placed, ListsTyped DEF Final
    <3>. QED  BY <3>1, <3>2
  <2>2. objs[2].presence = presence(seen.release.held)
    BY <1>5, <2>1 DEF ItemPresence
  <2>. QED  BY <1>4, <2>1, <2>2 DEF presence
<1>8. Items[i].kind \in Kinds /\ (Items[i].kind = "asset" => Items[i].name \in Assets)
  BY ItemFacts
<1>9. seen.release \in ShownType /\ seen.tag \in Held /\ seen.package \in Held /\ seen.docs \in Held
  BY <1>6 DEF SeenType
<1>10. ItemPresence(Items[i], CoreReleased, complete) \in {"Absent", "Pending", "Matches", "Differs"}
  <2>1. \A held : presence(held) \in {"Absent", "Matches", "Differs"}
    BY DEF presence
  <2>2. \A held, draft : AssetPresence(held, draft) \in {"Absent", "Pending", "Matches", "Differs"}
    BY <2>1 DEF AssetPresence
  <2>3. FinalPresence(seen.release) \in {"Absent", "Pending", "Matches"}
    BY DEF FinalPresence
  <2>. QED  BY <1>8, <2>1, <2>2, <2>3 DEF ItemPresence, Kinds
<1>11. ASSUME ItemPresence(Items[i], CoreReleased, complete) = "Matches"
       PROVE  Confirmed(Items[i])
  <2>0. \A held : presence(held) = "Matches" => held = "mine"
    BY DEF presence
  <2>1. CASE Items[i].kind = "tag"
    <3>1. seen.tag = "mine"
      BY <1>11, <2>0, <2>1 DEF ItemPresence
    <3>. QED  BY <1>6, <2>1, <3>1 DEF SeenInv, Confirmed
  <2>2. CASE Items[i].kind = "package"
    <3>1. seen.package = "mine"
      BY <1>11, <2>0, <2>2 DEF ItemPresence
    <3>. QED  BY <1>6, <2>2, <3>1 DEF SeenInv, Confirmed
  <2>3. CASE Items[i].kind = "docs"
    <3>1. seen.docs = "mine"
      BY <1>11, <2>0, <2>3 DEF ItemPresence
    <3>. QED  BY <1>6, <2>3, <3>1 DEF SeenInv, Confirmed
  <2>4. CASE Items[i].kind = "draft"
    <3>1. seen.release.held = "mine"
      BY <1>11, <2>0, <2>4 DEF ItemPresence
    <3>. QED  BY <1>6, <2>4, <3>1 DEF SeenInv, Confirmed
  <2>5. CASE Items[i].kind = "asset"
    <3>1. AssetPresence(seen.release.assets[Items[i].name], seen.release.draft) = "Matches"
      BY <1>11, <2>5 DEF ItemPresence
    <3>2. seen.release.assets[Items[i].name] = "mine"
      BY <2>0, <3>1 DEF AssetPresence
    <3>3. seen.release.held = "mine"
      BY <1>6, <1>7, <1>8, <1>9, <2>5, <3>2 DEF SeenInv, ShownType, Held
    <3>4. releases # <<>> /\ releases[1].mine
      BY <1>6, <3>3 DEF SeenInv
    <3>5. releases[1].assets[Items[i].name] = "mine"
      BY <1>6, <1>8, <2>5, <3>2, <3>3 DEF SeenInv, Uploaded
    <3>. QED  BY <2>5, <3>4, <3>5 DEF Confirmed
  <2>6. CASE Items[i].kind = "finalize"
    <3>1. FinalPresence(seen.release) = "Matches"
      BY <1>11, <2>6 DEF ItemPresence
    <3>2. seen.release.held # "none" /\ ~seen.release.draft
      BY <3>1 DEF FinalPresence
    <3>3. seen.release.held = "mine"
      BY <1>7, <1>9, <3>2 DEF ShownType, Held
    <3>4. releases # <<>> /\ releases[1].mine /\ ~releases[1].draft
      BY <1>6, <3>2, <3>3 DEF SeenInv
    <3>. QED  BY <2>6, <3>4 DEF Confirmed
  <2>7. CASE Items[i].kind = "notify"
    <3>1. CoreReleased /\ Items[i].name \in complete
      BY <1>11, <2>7 DEF ItemPresence
    <3>. QED  BY <1>6, <2>7, <3>1, CoreSeen DEF Confirmed
  <2>. QED  BY <1>8, <2>1, <2>2, <2>3, <2>4, <2>5, <2>6, <2>7 DEF Kinds
<1>12. objs[i].presence \in {"Absent", "Pending", "Matches"}
  BY <1>4, <1>5, <1>10
<1>13. i \in Owed(objs) <=> ItemWanted(Items[i]) /\ objs[i].presence # "Matches"
  <2>1. i \in Owed(objs) <=> Decision(objs[i]) = "Create"
    BY <1>3 DEF Owed, Decided
  <2>2. Decision(objs[i]) # "Conflict"
    BY <1>1, <1>3 DEF Conflicts, Decided
  <2>3. ItemWanted(Items[i]) \in BOOLEAN
    BY LiveAssumption DEF ItemWanted
  <2>. QED  BY <1>5, <1>12, <2>1, <2>2, <2>3 DEF Decision
<1>. QED  BY <1>1, <1>3, <1>5, <1>11, <1>12, <1>13 DEF Blocking

(* A settled object that blocks is not listed again.                       *)
LEMMA SettledIsUnowed ==
  ASSUME LiveInv, at = "hooks", NEW complete, complete \subseteq delivered,
         \A h \in delivered : Required(h) => h \in complete,
         Conflicts(Objects(CoreReleased, complete)) = {}, NEW i \in DOMAIN Items,
         Blocking(Items[i]), Settled(Items[i]), ShownSoFar(Items[i])
  PROVE  i \notin Owed(Objects(CoreReleased, complete))
<1>1. PICK objs : objs = Objects(CoreReleased, complete)
  OBVIOUS
<1>2. /\ objs[i] = ObjectOf(Items[i], CoreReleased, complete)
      /\ objs[i].presence \in {"Absent", "Pending", "Matches"}
      /\ i \in Owed(objs) <=> ItemWanted(Items[i]) /\ objs[i].presence # "Matches"
  BY <1>1, Presences
<1>3. objs[i].presence = ItemPresence(Items[i], CoreReleased, complete)
  BY <1>2 DEF ObjectOf
<1>4. SeenInv /\ seen \in SeenType
  BY DEF LiveInv, SeenInv
<1>5. Items[i].kind \in Kinds
  BY ItemFacts
<1>6. \A held : held # "none" => presence(held) \in {"Matches", "Differs"}
  BY DEF presence
<1>7. ItemPresence(Items[i], CoreReleased, complete) \in {"Matches", "Differs"}
  <2>1. CASE Items[i].kind = "tag"
    <3>1. seen.tag # "none"
      BY <2>1 DEF ShownSoFar, TagShown
    <3>. QED  BY <1>6, <2>1, <3>1 DEF ItemPresence
  <2>2. CASE Items[i].kind = "package"
    <3>1. seen.package # "none"
      BY <2>2 DEF ShownSoFar, PackageShown
    <3>. QED  BY <1>6, <2>2, <3>1 DEF ItemPresence
  <2>3. CASE Items[i].kind = "docs"
    <3>1. seen.docs # "none"
      BY <2>3 DEF ShownSoFar, DocsShown
    <3>. QED  BY <1>6, <2>3, <3>1 DEF ItemPresence
  <2>4. CASE Items[i].kind = "draft"
    <3>1. seen.release.held # "none"
      BY <2>4 DEF ShownSoFar, DraftShown
    <3>. QED  BY <1>6, <2>4, <3>1 DEF ItemPresence
  <2>5. CASE Items[i].kind = "asset"
    <3>1. seen.release.assets[Items[i].name] \in Uploaded
      BY <2>5 DEF ShownSoFar, AssetShown
    <3>2. AssetPresence(seen.release.assets[Items[i].name], seen.release.draft)
            \in {"Matches", "Differs"}
      BY <1>6, <3>1 DEF AssetPresence, Uploaded
    <3>. QED  BY <2>5, <3>2 DEF ItemPresence
  <2>6. CASE Items[i].kind = "finalize"
    <3>1. seen.release.held # "none" /\ ~seen.release.draft
      BY <2>6 DEF ShownSoFar, FinalShown
    <3>2. FinalPresence(seen.release) = "Matches"
      BY <3>1 DEF FinalPresence
    <3>. QED  BY <2>6, <3>2 DEF ItemPresence
  <2>7. CASE Items[i].kind = "notify"
    <3>1. /\ TagShown /\ PackageShown /\ (WantsDocs => DocsShown)
          /\ (WantsRelease => FinalShown)
      BY <2>7 DEF ShownSoFar
    <3>2. CoreReleased
      BY <3>1 DEF CoreReleased, TagShown, PackageShown, DocsShown, FinalShown
    <3>3. Items[i].name \in complete
      BY <2>7 DEF Settled, Blocking
    <3>. QED  BY <2>7, <3>2, <3>3 DEF ItemPresence
  <2>. QED  BY <1>5, <2>1, <2>2, <2>3, <2>4, <2>5, <2>6, <2>7 DEF Kinds
<1>. QED  BY <1>1, <1>2, <1>3, <1>7

(* What the choice of an effect says: it was not attempted before, and all *)
(* that it rests on, and all that was attempted, is confirmed or settled.  *)
LEMMA ChoiceIsNew ==
  ASSUME LiveInv, at = "hooks", NEW complete, complete \subseteq delivered,
         \A h \in delivered : Required(h) => h \in complete,
         NEW i, Chooses(Objects(CoreReleased, complete), i)
  PROVE  /\ i \in DOMAIN Items /\ ItemWanted(Items[i]) /\ i \notin attempted
         /\ Rests(i)
         /\ \A j \in attempted : Blocking(Items[j]) => Settled(Items[j])
<1>1. PICK objs : objs = Objects(CoreReleased, complete)
  OBVIOUS
<1>2. Chooses(objs, i)
  BY <1>1
<1>3. /\ phase = "observing" /\ Conflicts(objs) = {} /\ ~OwesFailure(objs)
      /\ i \in Owed(objs) /\ ~PassesOver(objs, i)
      /\ \A j \in Chosen(objs) : i <= j
  BY <1>2 DEF Chooses, Resolves, Observing, Proceeds, IsFirst, Chosen
<1>4. ASSUME NEW j \in DOMAIN Items
      PROVE  /\ DOMAIN objs = DOMAIN Items
             /\ j \in Owed(objs) <=> ItemWanted(Items[j]) /\ objs[j].presence # "Matches"
             /\ objs[j].blocking <=> Blocking(Items[j])
             /\ objs[j].presence = "Matches" => Confirmed(Items[j])
  BY <1>1, <1>3, Presences
<1>5. DOMAIN objs = DOMAIN Items
  <2>1. 1 \in DOMAIN Items
    BY Placed, ListsTyped DEF Final
  <2>. QED  BY <1>4, <2>1
<1>6. i \in DOMAIN Items
  BY <1>3, <1>5 DEF Owed, Decided
<1>7. ItemWanted(Items[i])
  BY <1>3, <1>4, <1>6
<1>8. ASSUME NEW j \in attempted, Blocking(Items[j])
      PROVE  j \in DOMAIN Items /\ j \notin Owed(objs)
  <2>1. j \in DOMAIN Items /\ Accounted(j)
    BY <1>3, <1>8 DEF LiveInv, AttemptedInv
  <2>2. CASE j = failed
    <3>1. j \notin BlockingOwed(objs)
      BY <1>3, <2>2 DEF OwesFailure
    <3>. QED  BY <1>4, <1>8, <2>1, <3>1 DEF BlockingOwed, Blocks
  <2>3. CASE Settled(Items[j]) /\ ShownSoFar(Items[j])
    BY <1>1, <1>3, <1>8, <2>1, <2>3, SettledIsUnowed
  <2>. QED  BY <1>3, <2>1, <2>2, <2>3 DEF Accounted
<1>9. i \notin attempted
  <2>. SUFFICES ASSUME i \in attempted PROVE FALSE
    OBVIOUS
  <2>1. objs[i].blocking
    BY <1>3 DEF PassesOver, Blocks
  <2>2. Blocking(Items[i])
    BY <1>4, <1>6, <2>1
  <2>. QED  BY <1>3, <1>8, <2>2
<1>10. ASSUME NEW j \in attempted, Blocking(Items[j])
       PROVE  Settled(Items[j])
  <2>1. j \in DOMAIN Items /\ j \notin Owed(objs) /\ ItemWanted(Items[j])
    BY <1>3, <1>8, <1>10 DEF LiveInv, AttemptedInv
  <2>2. Confirmed(Items[j])
    BY <1>4, <2>1
  <2>. QED  BY <2>1, <2>2, ConfirmedHolds DEF LiveInv
<1>11. ASSUME NEW j \in NeededStages, j < i
       PROVE  Holds(Items[j]) /\ Settled(Items[j])
  <2>1. j \in DOMAIN Items /\ ItemWanted(Items[j]) /\ Blocking(Items[j])
    BY DEF NeededStages, Indices, Needed, Blocking
  <2>2. j \in Nat /\ i \in Nat
    BY <1>6, <2>1, ItemFacts
  <2>3. j \notin Chosen(objs)
    BY <1>3, <1>11, <2>2
  <2>4. objs[j].blocking
    BY <1>4, <2>1
  <2>5. j \notin Owed(objs)
    BY <2>3, <2>4 DEF Chosen, PassesOver, Blocks
  <2>6. Confirmed(Items[j])
    BY <1>4, <2>1, <2>5
  <2>. QED  BY <2>1, <2>6, ConfirmedHolds DEF LiveInv
<1>. QED  BY <1>6, <1>7, <1>9, <1>10, <1>11 DEF Rests

(* An observation that leaves nothing to choose shows a complete release.  *)
LEMMA FinishIsComplete ==
  ASSUME LiveInv, NEW complete, complete \subseteq delivered,
         Finishes(Objects(CoreReleased, complete))
  PROVE  /\ tag = "mine" /\ package = "mine"
         /\ WantsDocs => docs = "mine"
         /\ WantsRelease => \E id \in DOMAIN releases : IsComplete(releases[id])
         /\ \A h \in Hooks : Required(h) => h \in delivered
<1>1. PICK objs : objs = Objects(CoreReleased, complete)
  OBVIOUS
<1>2. Conflicts(objs) = {} /\ Chosen(objs) = {}
  BY <1>1 DEF Finishes, Resolves, Proceeds
<1>3. ASSUME NEW j \in NeededStages
      PROVE  Confirmed(Items[j])
  <2>1. j \in DOMAIN Items /\ ItemWanted(Items[j]) /\ Blocking(Items[j])
    BY DEF NeededStages, Indices, Needed, Blocking
  <2>2. /\ j \in Owed(objs) <=> ItemWanted(Items[j]) /\ objs[j].presence # "Matches"
        /\ objs[j].blocking <=> Blocking(Items[j])
        /\ objs[j].presence = "Matches" => Confirmed(Items[j])
    BY <1>1, <1>2, <2>1, Presences
  <2>3. j \notin Owed(objs)
    BY <1>2, <2>1, <2>2 DEF Chosen, PassesOver, Blocks
  <2>. QED  BY <2>1, <2>2, <2>3
<1>4. Count \in Nat /\ Final = 5 + Count /\ Len(HookList) \in Nat
      /\ DOMAIN Items = 1 .. Final + Len(HookList)
  BY ListsTyped, Placed DEF Final
<1>5. /\ Items[1].kind = "tag" /\ Items[2].kind = "draft" /\ Items[3].kind = "package"
      /\ Items[4].kind = "docs" /\ Items[Final].kind = "finalize"
      /\ 1 \in DOMAIN Items /\ 2 \in DOMAIN Items /\ 3 \in DOMAIN Items
      /\ 4 \in DOMAIN Items /\ Final \in DOMAIN Items
  <2>1. /\ Items[1].kind = "tag" /\ Items[2].kind = "draft" /\ Items[3].kind = "package"
        /\ Items[4].kind = "docs" /\ Items[Final].kind = "finalize"
    BY ItemsAre DEF Item
  <2>. QED  BY <1>4, <2>1
<1>6. 1 \in NeededStages /\ 3 \in NeededStages /\ (WantsDocs => 4 \in NeededStages)
      /\ (WantsRelease => 2 \in NeededStages /\ Final \in NeededStages)
  BY <1>5 DEF NeededStages, Indices, Needed, ItemWanted
<1>7. tag = "mine" /\ package = "mine" /\ (WantsDocs => docs = "mine")
  <2>1. Confirmed(Items[1]) /\ Confirmed(Items[3]) /\ (WantsDocs => Confirmed(Items[4]))
    BY <1>3, <1>6
  <2>. QED  BY <1>5, <2>1 DEF Confirmed
<1>8. ASSUME WantsRelease PROVE \E id \in DOMAIN releases : IsComplete(releases[id])
  <2>1. Confirmed(Items[2]) /\ Confirmed(Items[Final])
    BY <1>3, <1>6, <1>8
  <2>2. releases # <<>> /\ releases[1].mine /\ ~releases[1].draft
    BY <1>5, <2>1 DEF Confirmed
  <2>3. ASSUME NEW a \in Assets
        PROVE  releases[1].assets[a] = "mine"
    <3>1. PICK k \in DOMAIN AssetList : AssetList[k] = a
      BY LiveAssumption DEF Range
    <3>2. k \in 1 .. Count
      BY ListsTyped
    <3>3. Items[4 + k] = Item("asset", a)
      BY <3>1, <3>2, ItemsAre
    <3>4. PICK j : j = 4 + k
      OBVIOUS
    <3>5. j \in DOMAIN Items /\ Items[j].kind = "asset" /\ Items[j].name = a
      <4>1. j \in DOMAIN Items
        BY <1>4, <3>2, <3>4
      <4>. QED  BY <3>3, <3>4, <4>1 DEF Item
    <3>6. j \in NeededStages
      BY <3>5 DEF NeededStages, Indices, Needed, ItemWanted
    <3>. QED  BY <1>3, <3>5, <3>6 DEF Confirmed
  <2>4. 1 \in DOMAIN releases
    BY <2>2, FirstRelease DEF LiveInv, WorldTyped
  <2>. QED  BY <2>2, <2>3, <2>4 DEF IsComplete
<1>9. ASSUME NEW h \in Hooks, Required(h) PROVE h \in delivered
  <2>1. PICK k \in DOMAIN HookList : HookList[k].id = h
    BY LiveAssumption
  <2>2. k \in 1 .. Len(HookList)
    BY ListsTyped
  <2>3. Items[Final + k] = Item("notify", h)
    BY <2>1, <2>2, ItemsAre
  <2>4. PICK j : j = Final + k
    OBVIOUS
  <2>5. j \in DOMAIN Items /\ Items[j].kind = "notify" /\ Items[j].name = h
    <3>1. j \in DOMAIN Items
      BY <1>4, <2>2, <2>4
    <3>. QED  BY <2>3, <2>4, <3>1 DEF Item
  <2>6. j \in NeededStages
    BY <1>9, <2>5 DEF NeededStages, Indices, Needed, ItemWanted
  <2>. QED  BY <1>3, <2>5, <2>6 DEF Confirmed
<1>. QED  BY <1>7, <1>8, <1>9

LEMMA ChooseKeeps ==
  ASSUME LiveInv, WorldStep, at = "hooks", NEW complete, complete \subseteq delivered,
         \A h \in delivered : Required(h) => h \in complete,
         NEW i, Chooses(Objects(CoreReleased, complete), i), UNCHANGED worldVars,
         Stops("-"), seen' = NothingSeen, at' = FirstStep(Items[applying'])
  PROVE  LiveInv'
<1>1. /\ i \in DOMAIN Items /\ ItemWanted(Items[i]) /\ Rests(i)
      /\ \A j \in attempted : Blocking(Items[j]) => Settled(Items[j])
  BY ChoiceIsNew
<1>2. /\ phase = "observing" /\ phase' = "applying" /\ attempted' = attempted \cup {i}
      /\ applying' = i /\ failed' = NoObject /\ UNCHANGED stop
  BY DEF Chooses, Resolves, Observing
<1>3. stop' = Running /\ exit' = Unset
  BY <1>2 DEF LiveInv, StopInv, Stops, StopExit, Running
<1>4. at' = FirstStep(Items[i])
  BY <1>2
<1>5. SeenInv'
  BY NothingSeenIsTrue
<1>6. SuccessIsTrue'
  BY <1>3 DEF SuccessIsTrue, Unset
<1>7. StopInv'
  BY <1>2, <1>3 DEF StopInv
<1>8. ASSUME NEW j \in DOMAIN Items
      PROVE  Settled(Items[j]) => Settled(Items[j])'
  BY StaysSettled DEF LiveInv, WorldStep
<1>9. Rests(i)'
  BY <1>1, StaysRested DEF LiveInv, WorldStep
<1>10. Rests(applying)'
  <2>1. PICK now \in DOMAIN Items : now = i
    BY <1>1
  <2>2. Rests(now)' /\ applying' = now
    BY <1>2, <1>9, <2>1
  <2>. QED  BY <2>2 DEF Rests
<1>11. ApplyInv'
  <2>1. Effect' = Items[i] /\ Items[i].kind \in Kinds
    BY <1>1, <1>2, ItemFacts DEF Effect
  <2>2. CASE Items[i].kind \in {"tag", "asset", "finalize"}
    <3>1. at' = "read"
      BY <1>4, <2>2 DEF FirstStep
    <3>. QED  BY <1>1, <1>2, <1>10, <2>1, <2>2, <3>1 DEF ApplyInv
  <2>3. CASE Items[i].kind \notin {"tag", "asset", "finalize"}
    <3>1. at' = "write"
      BY <1>4, <2>3 DEF FirstStep
    <3>2. RequestFor(Effect, WriteRequest)'
      BY <1>1, <1>2, <2>3, <3>1, NextWrites
    <3>. QED  BY <1>1, <1>2, <1>10, <2>1, <2>3, <3>1, <3>2 DEF ApplyInv
  <2>. QED  BY <2>2, <2>3
<1>12. AttemptedInv'
  <2>. SUFFICES ASSUME NEW j \in attempted'
                PROVE  /\ j \in DOMAIN Items /\ ItemWanted(Items[j])
                       /\ Blocking(Items[j]) => Accounted(j)'
    BY DEF AttemptedInv
  <2>1. CASE j = i
    BY <1>1, <1>2, <2>1 DEF Accounted
  <2>2. CASE j # i
    <3>1. j \in attempted
      BY <1>2, <2>2
    <3>2. j \in DOMAIN Items /\ ItemWanted(Items[j])
      BY <1>2, <3>1 DEF LiveInv, AttemptedInv
    <3>3. Blocking(Items[j]) => Settled(Items[j])'
      BY <1>1, <1>8, <3>1, <3>2
    <3>. QED  BY <1>2, <3>2, <3>3 DEF Accounted
  <2>. QED  BY <2>1, <2>2
<1>. QED  BY <1>5, <1>6, <1>7, <1>11, <1>12 DEF LiveInv, WorldStep

(* A run that stops with an error, whatever it observed.                   *)
LEMMA ErrorKeeps ==
  ASSUME LiveInv, WorldStep, NEW kind \in {"Conflict", "Failed", "Diverged", "Reshaped"},
         NEW state, StopIn(kind, state), Stops("-"), seen' = NothingSeen, at' = "-",
         kind = "Conflict" => state = "Conflict",
         kind = "Failed" => cause \in Classes
  PROVE  LiveInv'
<1>1. phase' = "stopped" /\ stop'.kind = kind /\ stop'.state = state
  BY DEF StopIn
<1>2. exit' = StopExit(stop', "-")
  BY DEF Stops
<1>3. "Internal" \in Classes
  BY DEF Classes
<1>4. exit' # 0
  <2>1. CASE kind = "Conflict"
    <3>1. exit' = RunErrorExit(state, "-") /\ state = "Conflict"
      BY <1>1, <1>2, <2>1 DEF StopExit
    <3>. QED  BY <3>1, ErrorExits
  <2>2. CASE kind = "Failed"
    <3>1. exit' = RunErrorExit(state, cause) /\ cause \in Classes
      BY <1>1, <1>2, <2>2 DEF StopExit
    <3>. QED  BY <3>1, ErrorExits
  <2>3. CASE kind \in {"Diverged", "Reshaped"}
    <3>1. exit' = RunErrorExit(state, "Internal")
      BY <1>1, <1>2, <2>3 DEF StopExit
    <3>. QED  BY <1>3, <3>1, ErrorExits
  <2>. QED  BY <2>1, <2>2, <2>3
<1>5. SuccessIsTrue'
  BY <1>4 DEF SuccessIsTrue
<1>. QED  BY <1>1, <1>5, StopKeeps

LEMMA AwaitingKeeps ==
  ASSUME LiveInv, WorldStep, StopIn("Finish", "AwaitingApproval"), Stops("-"),
         seen' = NothingSeen, at' = "-"
  PROVE  LiveInv'
<1>1. phase' = "stopped" /\ stop'.kind = "Finish" /\ stop'.state = "AwaitingApproval"
  BY DEF StopIn
<1>2. exit' = 3
  BY <1>1 DEF Stops, StopExit, ExitOf
<1>3. SuccessIsTrue'
  BY <1>2 DEF SuccessIsTrue
<1>. QED  BY <1>1, <1>3, StopKeeps

LEMMA FinishKeeps ==
  ASSUME LiveInv, WorldStep, NEW complete, complete \subseteq delivered,
         Finishes(Objects(CoreReleased, complete)), UNCHANGED worldVars,
         seen' = NothingSeen, at' = "-"
  PROVE  LiveInv'
<1>1. phase' = "stopped"
  BY DEF Finishes, StopIn
<1>2. /\ tag = "mine" /\ package = "mine"
      /\ WantsDocs => docs = "mine"
      /\ WantsRelease => \E id \in DOMAIN releases : IsComplete(releases[id])
      /\ \A h \in Hooks : Required(h) => h \in delivered
  BY FinishIsComplete
<1>3. /\ tag' = tag /\ package' = package /\ docs' = docs /\ releases' = releases
      /\ delivered' = delivered
  BY DEF worldVars
<1>4. SuccessIsTrue'
  BY <1>2, <1>3 DEF SuccessIsTrue, IsComplete
<1>. QED  BY <1>1, <1>4, StopKeeps

(* The failure that a run trusts was recorded with its class.              *)
LEMMA FailureHasCause ==
  ASSUME LiveInv, NEW objs, StopsAfterFailure(objs)
  PROVE  cause \in Classes
<1>1. phase = "observing" /\ failed \in DOMAIN objs /\ DOMAIN objs = Recorded
  BY DEF StopsAfterFailure, Observing, OwesFailure, BlockingOwed, Owed, Decided, SameCount
<1>2. NoObject \notin Recorded
  <2>1. Len(Items) \in Nat
    BY Placed, ListsTyped DEF Final
  <2>. QED  BY <2>1 DEF NoObject, Recorded
<1>3. failed # NoObject
  BY <1>1, <1>2
<1>. QED  BY <1>1, <1>3 DEF LiveInv, StopInv

LEMMA DecideKeeps ==
  ASSUME LiveInv, WorldStep, Decide
  PROVE  LiveInv'
<1>1. /\ at = "hooks" /\ Stops("-") /\ seen' = NothingSeen /\ UNCHANGED worldVars
      /\ at' = IF phase' = "applying" THEN FirstStep(Items[applying']) ELSE "-"
  BY DEF Decide
<1>2. PICK unreadable \in SUBSET {h \in Hooks : ~Required(h)} :
        Observed(Objects(CoreReleased, delivered \ unreadable))
  BY DEF Decide
<1>3. PICK complete : complete = delivered \ unreadable
  OBVIOUS
<1>4. complete \subseteq delivered /\ \A h \in delivered : Required(h) => h \in complete
  BY <1>2, <1>3
<1>5. PICK objs : objs = Objects(CoreReleased, complete)
  OBVIOUS
<1>6. Observed(objs)
  BY <1>2, <1>3, <1>5
<1>7. phase' = "stopped" => at' = "-"
  BY <1>1
<1>8. CASE ObservesConflict(objs)
  <2>1. StopIn("Conflict", "Conflict")
    BY <1>8 DEF ObservesConflict
  <2>. QED  BY <1>1, <1>7, <2>1, ErrorKeeps DEF StopIn
<1>9. CASE AwaitsApproval(objs)
  <2>1. StopIn("Finish", "AwaitingApproval")
    BY <1>9 DEF AwaitsApproval
  <2>. QED  BY <1>1, <1>7, <2>1, AwaitingKeeps DEF StopIn
<1>10. CASE ObservesReshaped(objs)
  <2>1. StopIn("Reshaped", SeenState(objs))
    BY <1>10 DEF ObservesReshaped
  <2>. QED  BY <1>1, <1>7, <2>1, ErrorKeeps DEF StopIn
<1>11. CASE StopsAfterFailure(objs)
  <2>1. StopIn("Failed", SeenState(objs)) /\ cause \in Classes
    BY <1>11, FailureHasCause DEF StopsAfterFailure
  <2>. QED  BY <1>1, <1>7, <2>1, ErrorKeeps DEF StopIn
<1>12. CASE Finishes(objs)
  <2>1. phase' = "stopped"
    BY <1>12 DEF Finishes, StopIn
  <2>. QED  BY <1>1, <1>4, <1>5, <1>7, <1>12, <2>1, FinishKeeps
<1>13. CASE Diverges(objs)
  <2>1. StopIn("Diverged", SeenState(objs))
    BY <1>13 DEF Diverges
  <2>. QED  BY <1>1, <1>7, <2>1, ErrorKeeps DEF StopIn
<1>14. ASSUME NEW i \in DOMAIN objs, Chooses(objs, i)
       PROVE  LiveInv'
  <2>1. at' = FirstStep(Items[applying'])
    BY <1>1, <1>14 DEF Chooses
  <2>. QED  BY <1>1, <1>4, <1>5, <1>14, <2>1, ChooseKeeps
<1>. QED  BY <1>6, <1>8, <1>9, <1>10, <1>11, <1>12, <1>13, <1>14 DEF Observed

LEMMA LiveNext == LiveInv /\ [Next]_vars => LiveInv'
<1>. SUFFICES ASSUME LiveInv, [Next]_vars PROVE LiveInv'
  OBVIOUS
<1>1. CASE UNCHANGED vars
  <2>1. UNCHANGED <<worldVars, decisionVars, targetVars>>
    BY <1>1 DEF vars
  <2>2. WorldStep
    BY <2>1, QuietStep DEF worldVars
  <2>. QED  BY <2>1, <2>2, OnlyTheWorldMoves
<1>2. CASE Next
  <2>1. WorldStep
    BY <1>2, StepWorld
  <2>2. CASE Observe
    BY <2>1, <2>2, PackageReadKeeps, DocsReadKeeps, TagSeenKeeps, ReleaseSeenKeeps,
       DecideKeeps DEF Observe
  <2>3. CASE ObserveInVain
    BY <2>1, <2>3, ObserveInVainKeeps
  <2>4. CASE Apply \/ ApplyInVain
    BY <2>1, <2>4, ApplyKeeps
  <2>5. CASE Rerun \/ KilledAndRerun
    BY <2>1, <2>5, BeginsKeeps DEF Rerun, KilledAndRerun
  <2>6. CASE WorldMoves
    BY <2>1, <2>6, OnlyTheWorldMoves DEF WorldMoves
  <2>. QED  BY <1>2, <2>2, <2>3, <2>4, <2>5, <2>6 DEF Next
<1>. QED  BY <1>1, <1>2

LEMMA WorldAdvances ==
  ASSUME LiveInv, [Next]_vars
  PROVE  WorldStep
<1>1. CASE UNCHANGED vars
  BY <1>1, QuietStep DEF vars, worldVars
<1>2. CASE Next
  BY <1>2, StepWorld
<1>. QED  BY <1>1, <1>2

(***************************************************************************)
(* What every release run of every Candidate keeps.                        *)
(***************************************************************************)

(* The inductive invariant holds in every reachable state.                 *)
THEOREM LiveInvariance == Spec => []LiveInv
<1>1. Init => LiveInv
  BY LiveInit
<1>2. LiveInv /\ [Next]_vars => LiveInv'
  BY LiveNext
<1>. QED  BY <1>1, <1>2, PTL DEF Spec

(* However the world moves between the reads of the observation, whatever  *)
(* other publishers and late requests do, a run that exits 0 published all *)
(* that the Candidate needs (CandidateReleaseRunner::execute).             *)
THEOREM SuccessIsNoLie == Spec => []SuccessIsTrue
<1>1. LiveInv => SuccessIsTrue
  BY DEF LiveInv
<1>. QED  BY <1>1, LiveInvariance, PTL

LEMMA StepHolds ==
  ASSUME LiveInv, [Next]_vars
  PROVE  /\ tag # "none" => tag' = tag
         /\ package # "none" => package' = package
         /\ docs # "none" => docs' = docs
         /\ \A id \in DOMAIN releases :
              /\ ~releases[id].draft => ~releases'[id].draft
              /\ \A a \in Assets :
                   releases[id].assets[a] \in {"mine", "other"} =>
                     releases'[id].assets[a] = releases[id].assets[a]
<1>1. Persists
  BY WorldAdvances DEF WorldStep
<1>2. ASSUME NEW id \in DOMAIN releases
      PROVE  Grown(releases[id], releases'[id])
  BY <1>1 DEF Persists, ReleasesPersist
<1>. QED  BY <1>1, <1>2 DEF Persists, Grown, Uploaded

(* What is published stays: no step of a run, no late request and no other *)
(* publisher takes back a tag, a version, a published Release or an asset  *)
(* that was uploaded whole (LiveReleaseTarget::apply).                     *)
THEOREM PublishedStays == Spec => HeldStays
<1>1. LiveInv /\ [Next]_vars =>
        [/\ tag # "none" => tag' = tag
         /\ package # "none" => package' = package
         /\ docs # "none" => docs' = docs
         /\ \A id \in DOMAIN releases :
              /\ ~releases[id].draft => ~releases'[id].draft
              /\ \A a \in Assets :
                   releases[id].assets[a] \in {"mine", "other"} =>
                     releases'[id].assets[a] = releases[id].assets[a]]_vars
  BY StepHolds
<1>. QED  BY <1>1, LiveInvariance, PTL DEF Spec, HeldStays

LEMMA OnlyDecideChooses ==
  ASSUME Next, phase = "observing", phase' = "applying"
  PROVE  Decide
<1>1. CASE Observe
  BY <1>1 DEF Observe, ReadPackage, ReadDocs, ReadTag, ReadRelease, Reads, decisionVars
<1>2. CASE ObserveInVain
  BY <1>2 DEF ObserveInVain, ReadConflict, ReadFails, RequiredHookFails, Unobservable,
     ObservationFails, StopIn
<1>3. CASE Rerun \/ KilledAndRerun
  BY <1>3 DEF Rerun, KilledAndRerun, Begins, Restart
<1>4. CASE WorldMoves
  BY <1>4 DEF WorldMoves, decisionVars
<1>5. CASE Apply
  BY <1>5 DEF Apply, ApplyReadsTag, ApplyReadsNoRelease, ApplyReadsRelease, ApplyReadsAsset,
     WriteSucceeds, WriteIsRefused, PollSees, PollTimesOut, WriteErrs, GoesOn, ApplySucceeds,
     ApplyFails, Applied, decisionVars
<1>6. CASE ApplyInVain
  BY <1>6 DEF ApplyInVain, WriteFails, WriteIsLost, UploadBreaksOff, ApplyReadFails,
     WriteErrs, GoesOn, ApplyFails, Applied, decisionVars
<1>. QED  BY <1>1, <1>2, <1>3, <1>4, <1>5, <1>6 DEF Next

LEMMA NothingIsAppliedAgain ==
  ASSUME LiveInv, [Next]_vars, phase = "observing", phase' = "applying"
  PROVE  applying' \notin attempted
<1>1. Next
  BY DEF vars, decisionVars
<1>2. Decide
  BY <1>1, OnlyDecideChooses
<1>3. PICK unreadable \in SUBSET {h \in Hooks : ~Required(h)} :
        Observed(Objects(CoreReleased, delivered \ unreadable))
  BY <1>2 DEF Decide
<1>4. PICK complete : complete = delivered \ unreadable
  OBVIOUS
<1>5. complete \subseteq delivered /\ \A h \in delivered : Required(h) => h \in complete
  BY <1>3, <1>4
<1>6. PICK objs : objs = Objects(CoreReleased, complete)
  OBVIOUS
<1>7. Observed(objs)
  BY <1>3, <1>4, <1>6
<1>8. PICK i \in DOMAIN objs : Chooses(objs, i)
  BY <1>7 DEF Observed, ObservesConflict, AwaitsApproval, ObservesReshaped,
     StopsAfterFailure, Finishes, Diverges, StopIn
<1>9. applying' = i /\ at = "hooks"
  BY <1>2, <1>8 DEF Chooses, Decide
<1>10. i \notin attempted
  BY <1>5, <1>6, <1>8, <1>9, ChoiceIsNew
<1>. QED  BY <1>9, <1>10

(* Within one run no effect is applied twice, whatever the world shows in  *)
(* between: an effect that blocks is settled and shown, or fails the run,  *)
(* once it was attempted (Run::observed).                                  *)
THEOREM NoEffectTwice == Spec => AppliedOnce
<1>1. LiveInv /\ [Next]_vars =>
        [phase = "observing" /\ phase' = "applying" => applying' \notin attempted]_vars
  BY NothingIsAppliedAgain
<1>. QED  BY <1>1, LiveInvariance, PTL DEF Spec, AppliedOnce

(***************************************************************************)
(* LiveRelease implements OrderedRelease.                                  *)
(***************************************************************************)
Released == exit = 0 => NeededStages \subseteq Published

LEMMA SuccessIsRelease == SuccessIsTrue => Released
<1>. SUFFICES ASSUME SuccessIsTrue, exit = 0, NEW j \in NeededStages
              PROVE  j \in Published
  BY DEF Released
<1>1. j \in DOMAIN Items /\ ItemWanted(Items[j]) /\ Blocking(Items[j])
  BY DEF NeededStages, Indices, Needed, Blocking
<1>2. /\ Items[j].kind \in Kinds
      /\ Items[j].kind = "asset" => Items[j].name \in Assets /\ WantsRelease
      /\ Items[j].kind = "notify" => Items[j].name \in Hooks
  BY <1>1, ItemFacts
<1>3. ASSUME WantsRelease
      PROVE  \E id \in DOMAIN releases :
               /\ releases[id].mine /\ ~releases[id].draft
               /\ \A a \in Assets : releases[id].assets[a] = "mine"
  BY <1>3 DEF SuccessIsTrue, IsComplete
<1>4. CASE Items[j].kind \in {"tag", "package", "docs"}
  BY <1>1, <1>4 DEF SuccessIsTrue, ItemWanted, Holds, Published, Indices
<1>5. CASE Items[j].kind \in {"draft", "finalize"}
  <2>1. WantsRelease
    BY <1>1, <1>5 DEF ItemWanted
  <2>2. Holds(Items[j])
    BY <1>3, <1>5, <2>1 DEF Holds
  <2>. QED  BY <1>1, <2>2 DEF Published, Indices
<1>6. CASE Items[j].kind = "asset"
  <2>1. Holds(Items[j])
    BY <1>2, <1>3, <1>6 DEF Holds
  <2>. QED  BY <1>1, <2>1 DEF Published, Indices
<1>7. CASE Items[j].kind = "notify"
  <2>1. Holds(Items[j])
    BY <1>1, <1>2, <1>7 DEF SuccessIsTrue, Holds, Blocking
  <2>. QED  BY <1>1, <2>1 DEF Published, Indices
<1>. QED  BY <1>2, <1>4, <1>5, <1>6, <1>7 DEF Kinds

(* No step both moves the world and ends or begins a run.                  *)
LEMMA ExitOrWorld ==
  ASSUME [Next]_vars
  PROVE  \/ exit' = exit
         \/ UNCHANGED <<tag, package, docs, releases, visible, delivered, rivals>>
<1>1. CASE UNCHANGED worldVars
  BY <1>1 DEF worldVars
<1>2. CASE Observe
  BY <1>1, <1>2 DEF Observe, ReadPackage, ReadDocs, ReadTag, ReadRelease, Decide, Reads
<1>3. CASE ObserveInVain
  BY <1>1, <1>3 DEF ObserveInVain, ReadConflict, ReadFails, RequiredHookFails, Unobservable
<1>4. CASE Apply
  BY <1>4 DEF Apply, ApplyReadsTag, ApplyReadsNoRelease, ApplyReadsRelease, ApplyReadsAsset,
     WriteSucceeds, WriteIsRefused, PollSees, PollTimesOut, WriteErrs, GoesOn, ApplySucceeds,
     ApplyFails
<1>5. CASE ApplyInVain
  BY <1>5 DEF ApplyInVain, WriteFails, WriteIsLost, UploadBreaksOff, ApplyReadFails,
     WriteErrs, GoesOn, ApplyFails
<1>6. CASE Rerun
  BY <1>1, <1>6 DEF Rerun
<1>7. CASE KilledAndRerun
  BY <1>7 DEF KilledAndRerun
<1>8. CASE WorldMoves \/ UNCHANGED vars
  BY <1>8 DEF WorldMoves, vars, targetVars
<1>. QED  BY <1>2, <1>3, <1>4, <1>5, <1>6, <1>7, <1>8 DEF Next

LEMMA PublishedGrows ==
  ASSUME WorldTyped, Persists
  PROVE  Published \subseteq Published'
BY StaysSettled DEF Published, Indices

LEMMA NothingPublished ==
  ASSUME WorldTyped, Persists, NothingNew
  PROVE  Published' = Published
BY PublishedGrows DEF Published, Indices, NothingNew

(* What an object rests on is what the promise says it needs.              *)
LEMMA RestsOnPublished ==
  ASSUME NEW i \in DOMAIN Items, Rests(i)
  PROVE  NeedsOf[i] \subseteq Published
BY DEF Rests, NeedsOf, NeededStages, Indices, Published

LEMMA ClaimStep ==
  ASSUME Released', Published' = Published
  PROVE  Promise!Next
<1>1. Claimed' \in {"running", "success", "failure"}
  BY DEF Claimed
<1>2. Claimed' = "success" => NeededStages \subseteq Published
  BY DEF Claimed, Released, NeededStages, Indices
<1>3. Promise!Claim(Claimed')
  BY <1>2 DEF Promise!Claim
<1>. QED  BY <1>1, <1>3 DEF Promise!Next, Promise!Verdicts

LEMMA PromiseStep ==
  ASSUME "finalize" \notin Rivals, LiveInv, Released', [Next]_vars
  PROVE  [Promise!Next]_(Promise!vars)
<1>1. Persists /\ Ordered /\ WorldTyped
  BY WorldAdvances DEF WorldStep, LiveInv
<1>2. CASE NothingNew
  BY <1>1, <1>2, NothingPublished, ClaimStep
<1>3. CASE ~NothingNew
  <2>1. PICK i \in DOMAIN Items : OnlyHolds(i) /\ Rests(i)
    BY <1>1, <1>3 DEF Ordered
  <2>2. exit' = exit
    BY <1>1, <1>3, ExitOrWorld, WorldKept
  <2>3. ~Holds(Items[i]) /\ Holds(Items[i])'
    BY <1>3, <2>1 DEF NothingNew, OnlyHolds
  <2>4. Published' = Published \cup {i} /\ i \notin Published
    BY <1>1, <2>1, <2>3, PublishedGrows DEF OnlyHolds, Published, Indices
  <2>5. NeedsOf[i] \subseteq Published
    BY <2>1, RestsOnPublished
  <2>6. Claimed' = Claimed
    BY <2>2 DEF Claimed
  <2>7. Promise!Publish(i)
    BY <2>4, <2>5, <2>6 DEF Promise!Publish
  <2>. QED  BY <2>1, <2>7 DEF Promise!Next, Indices
<1>. QED  BY <1>2, <1>3

LEMMA PromiseInit ==
  ASSUME Init
  PROVE  Promise!Init
<1>1. tag = "none" /\ package = "none" /\ docs = "none" /\ releases = <<>> /\ delivered = {}
      /\ exit = Unset
  BY DEF Init, WorldInit
<1>2. ASSUME NEW i \in DOMAIN Items
      PROVE  ~Holds(Items[i])
  <2>1. DOMAIN releases = {}
    BY <1>1
  <2>2. Items[i].kind \in Kinds
    BY ItemFacts
  <2>3. CASE Items[i].kind \in {"tag", "package", "docs", "notify"}
    BY <1>1, <2>3 DEF Holds
  <2>4. CASE Items[i].kind \in {"draft", "asset", "finalize"}
    BY <2>1, <2>4 DEF Holds
  <2>. QED  BY <2>2, <2>3, <2>4 DEF Kinds
<1>3. Published = {}
  BY <1>2 DEF Published, Indices
<1>. QED  BY <1>1, <1>3 DEF Promise!Init, Claimed, Unset

(* Through lost answers, killed jobs, late requests and other publishers,  *)
(* the release appears to the world in the order of publication and is     *)
(* never taken back, and success is claimed only of all of it (Run::next,  *)
(* LiveReleaseTarget).  A person who publishes the draft by hand finalizes *)
(* it before its assets: the one rival that the promise does not stand.    *)
THEOREM ReleaseKeepsPromise ==
  ASSUME "finalize" \notin Rivals
  PROVE  Spec => KeepsPromise
<1>1. Init => Promise!Init
  BY PromiseInit
<1>2. LiveInv => Released
  BY SuccessIsRelease DEF LiveInv
<1>3. LiveInv /\ Released' /\ [Next]_vars => [Promise!Next]_(Promise!vars)
  BY PromiseStep
<1>. QED  BY <1>1, <1>2, <1>3, LiveInvariance, PTL DEF Spec, KeepsPromise, Promise!Spec


(* What the abstract publication promises of a success.                    *)
LEMMA PromiseLasts == Promise!Spec => []Promise!SuccessLasts
<1>1. Promise!Init => Promise!SuccessLasts
  BY DEF Promise!Init, Promise!SuccessLasts
<1>2. Promise!SuccessLasts /\ [Promise!Next]_(Promise!vars) => Promise!SuccessLasts'
  BY DEF Promise!SuccessLasts, Promise!Next, Promise!Publish, Promise!Claim, Promise!vars
<1>. QED  BY <1>1, <1>2, PTL DEF Promise!Spec

(* Nothing is taken back in the order of publication, so a success, once   *)
(* claimed, stays true of what everyone sees until the next run claims     *)
(* something else, whatever late requests and killed runs leave behind     *)
(* (Step::Finish).                                                         *)
THEOREM SuccessIsLasting ==
  ASSUME "finalize" \notin Rivals
  PROVE  Spec => []Promise!SuccessLasts
BY ReleaseKeepsPromise, PromiseLasts, PTL DEF KeepsPromise
=============================================================================
