--------------------------------- MODULE Shell ---------------------------------
(***************************************************************************)
(* The main window: eight places in a stack whose pages are built when     *)
(* they are first opened, sections whose tabs are built the same way, the  *)
(* bar of buttons beside them, and the page of known problems, which looks *)
(* up the articles for a query or for the last diagnosis of the route.     *)
(***************************************************************************)
EXTENDS Naturals, SequencesExt, Sublists

CONSTANTS
    Places,         \* the number of places in the stack
    Tabs,           \* the number of tabs of each section, by its place
    Optimizations,  \* the place a fix of the knowledge page leads to
    Articles,       \* the problems known: [title, game, words, fix], in their order
    Queries,        \* what may be typed, "" among it
    Reports,        \* diagnoses: [outcome, game, words], the words of outcome and metrics
    MaxArticles     \* kMaxArticles

ASSUME ShellAssumption ==
    /\ Places \in Nat \ {0} /\ DOMAIN Tabs \subseteq 1 .. Places
    /\ \A p \in DOMAIN Tabs : Tabs[p] \in Nat \ {0}
    /\ Optimizations \in 1 .. Places /\ MaxArticles \in Nat \ {0} /\ "" \in Queries
    /\ Articles \in Seq(Range(Articles)) /\ \A a \in Range(Articles) : IsFiniteSet(a.words)

Sections == DOMAIN Tabs
Games == {a.game : a \in Range(Articles)}
NoArticle == [title |-> "", game |-> "", words |-> {}, fix |-> ""]

VARIABLES
    stack,    \* the widgets of the stack: for each its place, and whether it is the page
    front,    \* the index of the widget that is shown
    checked,  \* the place of the button that is pressed
    built,    \* how often each tab of a section has been built
    tab,      \* the tab each section shows
    query, filter,  \* the search of the knowledge page; the filter "" stands for all games
    found,    \* its list of articles
    detail,   \* the article it shows
    fixable,  \* the button for the fix of it is visible
    fix,      \* m_currentFix
    report    \* the last diagnosis, or the empty record

frameVars == <<stack, front, checked, built, tab>>
knowledgeVars == <<query, filter, found, detail, fixable, fix>>
shellVars == <<frameVars, knowledgeVars, report>>

-----------------------------------------------------------------------------
(* The stack of Qt: taking a widget out and putting one in move the index of *)
(* the one that is shown.                                                    *)

Take(s, i) == [list |-> RemoveAt(s.list, i),
               at |-> IF s.at > i \/ (s.at = i /\ i = Len(s.list)) THEN s.at - 1 ELSE s.at]
Insert(s, i, w) == [list |-> InsertAt(s.list, i, w), at |-> IF i <= s.at THEN s.at + 1 ELSE s.at]

Holder(p) == [place |-> p, page |-> FALSE]
Page(p) == [place |-> p, page |-> TRUE]

\* Mutant: the new page goes to the end of the stack.
ReplacedAtTheEnd(s, p) == LET t == Take(s, p) IN Insert(t, Len(t.list) + 1, Page(p))

\* ensurePage: the page takes the place of its placeholder.
Replaced(s, p) == Insert(Take(s, p), p, Page(p))
EnsurePage(s, p) == IF s.list[p].page THEN s ELSE Replaced(s, p)

\* The neighbour QTabWidget shows when the current tab is removed: onTabChanged is called for it.
Neighbour(s, t) == IF t < Tabs[s] THEN t + 1 ELSE t - 1

\* Mutant: the call is not told from a click.
CalledUnguarded(s, t) == {Neighbour(s, t)} \ {0}

\* The call returns at once, for the section is being filled.
Called(s, t) == {}

\* onTabChanged: the factory of a tab is called and forgotten.
Filled(b, s, t) ==
    IF b[s][t] > 0 THEN b
    ELSE [b EXCEPT ![s] = [u \in 1 .. Tabs[s] |->
             IF u = t \/ (u \in Called(s, t) /\ @[u] = 0) THEN @[u] + 1 ELSE @[u]]]

\* addTab: the first tab of a section is built with it.
Opened(s, b, p) == IF p \in Sections /\ ~s.list[p].page THEN Filled(b, p, 1) ELSE b

\* onNavigationChanged.
OnNavigationChanged(p) ==
    LET s == [list |-> stack, at |-> front]
        t == EnsurePage(s, p)
    IN  /\ stack' = t.list /\ front' = p
        /\ built' = Opened(s, built, p)
        /\ UNCHANGED <<tab, report>>

\* A button of the bar.
Navigate(p) ==
    /\ checked' = p /\ OnNavigationChanged(p) /\ UNCHANGED knowledgeVars

\* A tab of the section that is shown.
OnTabChanged(t) ==
    /\ front \in Sections /\ t \in 1 .. Tabs[front] /\ t # tab[front]
    /\ built' = Filled(built, front, t)
    /\ tab' = [tab EXCEPT ![front] = t]
    /\ UNCHANGED <<stack, front, checked, knowledgeVars, report>>

-----------------------------------------------------------------------------
(* The knowledge page.                                                       *)

GetForGame(g) == Sublist(Articles, {i \in DOMAIN Articles : Articles[i].game = g})
Search(g, q) ==
    Sublist(Articles, {i \in DOMAIN Articles : Articles[i].game = g /\ (q = "" \/ q \in Articles[i].words)})

\* reload.
Entries(g, q) == IF q = "" THEN IF g = "" THEN Articles ELSE GetForGame(g)
                 ELSE Search(g, q)

\* forDiagnostic: the articles by the words they share with the diagnosis.
Score(a, r) == Cardinality(a.words \cap r.words) + IF a.game = r.game THEN 2 ELSE 0
Scored(r) == Sublist(Articles, {i \in DOMAIN Articles : Score(Articles[i], r) > 0})
Ranked(r) ==
    LET s == Scored(r)
        before(i) == {j \in DOMAIN s : \/ Score(s[j], r) > Score(s[i], r)
                                       \/ Score(s[j], r) = Score(s[i], r) /\ j < i}
    IN  [n \in DOMAIN s |-> s[CHOOSE i \in DOMAIN s : Cardinality(before(i)) = n - 1]]

Best(s) == SubSeq(s, 1, IF Len(s) > MaxArticles THEN MaxArticles ELSE Len(s))
\* Mutant: the number is cut before the articles are in order.
ForDiagnosticEarly(r) == Best(Scored(r))

\* forDiagnostic.
ForDiagnostic(r) == IF r.outcome = "InsufficientData" THEN <<>> ELSE Best(Ranked(r))

\* showEntries: nothing of the article before is left.
ShowEntries(s) ==
    /\ found' = s /\ detail' = NoArticle /\ fixable' = FALSE /\ fix' = ""

OnPage(p) == front = p /\ stack[p].page
Type(q, g) ==
    /\ OnPage(Places) /\ <<q, g>> # <<query, filter>>
    /\ query' = q /\ filter' = g
    /\ ShowEntries(Entries(g, q))
    /\ UNCHANGED <<frameVars, report>>

\* Mutant: an article without a fix is done with early.
SelectInHaste(i) ==
    /\ OnPage(Places) /\ i \in DOMAIN found
    /\ detail' = found[i]
    /\ IF found[i].fix = "" THEN UNCHANGED <<fixable, fix>>
       ELSE fixable' = TRUE /\ fix' = found[i].fix
    /\ UNCHANGED <<query, filter, found, frameVars, report>>

\* The handler of currentRowChanged.
SelectArticle(i) ==
    /\ OnPage(Places) /\ i \in DOMAIN found
    /\ detail' = found[i] /\ fixable' = (found[i].fix # "") /\ fix' = found[i].fix
    /\ UNCHANGED <<query, filter, found, frameVars, report>>

\* showDiagnosticMatches: with no report or no article for it the list is emptied, and the text
\* that says so takes the place of the article.
ShowDiagnosticMatches ==
    /\ OnPage(Places)
    /\ IF report.outcome \in {"none", "InsufficientData"} \/ ForDiagnostic(report) = <<>>
       THEN /\ found' = <<>> /\ detail' = NoArticle /\ fixable' = FALSE /\ UNCHANGED fix
       ELSE ShowEntries(ForDiagnostic(report))
    /\ UNCHANGED <<query, filter, frameVars, report>>

\* Mutant: the page is changed and the bar is not told.
FollowQuietly ==
    /\ OnPage(Places) /\ fixable /\ fix # ""
    /\ OnNavigationChanged(Optimizations)
    /\ UNCHANGED <<checked, knowledgeVars>>

\* The button for the fix leads to the optimizations.
Follow ==
    /\ OnPage(Places) /\ fixable /\ fix # ""
    /\ checked' = Optimizations
    /\ OnNavigationChanged(Optimizations)
    /\ UNCHANGED knowledgeVars

\* A run of the diagnosis, on a page of its own, leaves its report with the service.
Diagnosed(r) ==
    /\ report' = r /\ report # r
    /\ UNCHANGED <<frameVars, knowledgeVars>>

-----------------------------------------------------------------------------
\* setupPages: placeholders, and the first page; the page of the start may be set from outside.
ShellInit ==
    /\ LET s == EnsurePage([list |-> [p \in 1 .. Places |-> Holder(p)], at |-> 1], 1)
       IN  /\ stack = s.list
           /\ built = Opened([list |-> [p \in 1 .. Places |-> Holder(p)], at |-> 1],
                             [p \in Sections |-> [t \in 1 .. Tabs[p] |-> 0]], 1)
    /\ front = 1 /\ checked = 1
    /\ tab = [p \in Sections |-> 1]
    /\ query = "" /\ filter = "" /\ found = Articles /\ detail = NoArticle
    /\ fixable = FALSE /\ fix = ""
    /\ report = [outcome |-> "none", game |-> "", words |-> {}]

ShellNext ==
    \/ \E p \in 1 .. Places : Navigate(p)
    \/ \E t \in 1 .. 8 : OnTabChanged(t)
    \/ \E q \in Queries, g \in Games \cup {""} : Type(q, g)
    \/ \E i \in DOMAIN found : SelectArticle(i)
    \/ ShowDiagnosticMatches \/ Follow
    \/ \E r \in Reports : Diagnosed(r)

ShellSpec == ShellInit /\ [][ShellNext]_shellVars

-----------------------------------------------------------------------------
ShellTypeOK ==
    /\ stack \in [1 .. Places -> [place : 1 .. Places, page : BOOLEAN]]
    /\ {front, checked} \subseteq 1 .. Places
    /\ DOMAIN built = Sections /\ \A p \in Sections : tab[p] \in 1 .. Tabs[p]
    /\ query \in Queries /\ filter \in Games \cup {""}
    /\ Range(found) \subseteq Range(Articles) /\ detail \in Range(Articles) \cup {NoArticle}
    /\ fixable \in BOOLEAN

\* However the pages have been opened, every place of the stack holds its own widget, the shown
\* one is a page, and the pressed button of the bar is the one of the page (ensurePage takes a
\* widget out of the stack and puts another in, which moves the others).
BarTellsThePage ==
    /\ \A p \in 1 .. Places : stack[p].place = p
    /\ stack[front].page /\ checked = front

\* A tab is built once, when it is first shown, and never for a change of tabs that the filling
\* of another tab caused (tabbed_section.h: the factory is called exactly once, when the tab is
\* first activated).
TabsAreBuiltWhenShown ==
    [][\A p \in Sections, t \in 1 .. 8 : t <= Tabs[p] /\ built'[p][t] # built[p][t] =>
          built[p][t] = 0 /\ built'[p][t] = 1 /\ front' = p /\ tab'[p] = t]_shellVars

\* The button for a fix is seen under the article it belongs to, and under no other.
FixIsOfTheArticle == fixable => fix = detail.fix /\ fix # ""

\* The articles chosen for a diagnosis are in the order of what they share with it, and no
\* article left out shares more.
BestAreChosen ==
    [][ShowDiagnosticMatches =>
          /\ \A i, j \in DOMAIN found' : i < j => Score(found'[i], report) >= Score(found'[j], report)
          /\ \A a \in Range(Articles) \ Range(found'), i \in DOMAIN found' :
                Score(a, report) <= Score(found'[i], report)]_shellVars

\* The search box of the page: "search by symptoms, causes, solutions". What contains the
\* query is in the list, unless the filter for a game excludes it.
SearchFindsWhatThereIs ==
    [][\A q \in Queries, g \in Games \cup {""} : Type(q, g) =>
          \A a \in Range(Articles) : (q \in a.words) /\ (g \in {"", a.game}) => a \in Range(found')]_shellVars
=============================================================================
