----------------------------- MODULE MCRouter ------------------------------
(* An instance of Router: an application and a module that share the bare     *)
(* name of a controller, and files whose lines overlap, repeat a path, or are *)
(* refused in each of the three ways.                                         *)
EXTENDS Router

Hotels == [module |-> "App", name |-> "hotels", methods |-> {"index", "show"}]
Rooms  == [module |-> "Jobs", name |-> "hotels", methods |-> {"show"}]
Status == [module |-> "Jobs", name |-> "status", methods |-> {"index"}]
Types  == {Hotels, Rooms, Status}

Do(ns, c, m)       == [ns |-> ns, controller |-> c, method |-> m]
Row(v, p, action)  == [verb |-> v, path |-> p, action |-> action]
From(m, p)         == Row("*", p, [include |-> m])

AnyController == Do(None, Var("controller"), Var("action"))
Show          == Do(None, Lit("hotels"), Lit("show"))
Index         == Do(None, Lit("hotels"), Lit("index"))

OfModule == [m \in {"Jobs"} |->
  << Row("GET", <<Lit("show"), Var("id")>>, Show),
     Row("*", <<Var("controller"), Var("action")>>, AnyController) >>]

\* Literals before variables, a module under a path, variable lines last.
Plain == << Row("GET", <<Lit("hotels")>>, Index),
            Row("POST", <<Lit("hotels"), Var("id")>>, Index),
            From("Jobs", <<Lit("jobs")>>),
            Row("GET", <<Lit("all"), Var("controller")>>, Do(None, Var("controller"), Lit("index"))),
            Row("*", <<Var("controller"), Var("action")>>, AnyController) >>
\* A variable line first, its path repeated by the module's; a 404 under a star.
Overlapping == << Row("*", <<Var("controller"), Var("action")>>, AnyController),
                  Row("GET", <<Lit("hotels"), Star("rest")>>, NotFound),
                  Row("GET", <<Lit("status")>>, Do("Jobs", Lit("status"), Lit("index"))),
                  From("Jobs", << >>),
                  From("Absent", << >>),
                  Row("GET", <<Lit("rooms"), Star("number")>>, Do("Jobs", Lit("hotels"), Lit("show"))) >>
Invalid   == << Row("GET", <<Lit("a")>>, Index), Row("GET", <<Lit("b")>>, Do(None, Lit("status"), Lit("show"))) >>
Unknown   == << Row("GET", <<Lit("a")>>, Show), Row("GET", <<Lit("b")>>, Do(None, Lit("users"), Lit("show"))) >>
Repeated  == << Row("GET", <<Lit("hotels"), Var("id")>>, Show),
                Row("HEAD", <<Lit("hotels"), Var("name")>>, Index) >>

SomeFiles == {Plain, Overlapping, Invalid, Unknown, Repeated}
Questions == {Show, Do("App", Lit("hotels"), Lit("show")), Do("Jobs", Lit("hotels"), Lit("show")), Do(None, Lit("status"), Lit("index")),
              Do(None, Lit("users"), Lit("show"))}
Text(elements, ends) == [elements |-> elements, ends |-> ends]
Values == {Text(<<"7">>, FALSE), Text(<<"show">>, FALSE), Text(<<"">>, FALSE),
           Text(<<"7", "show">>, FALSE), Text(<<"7">>, TRUE)}
Ask(verbs, urls) == [verb : verbs, override : {None}, path : urls]
SomeRequests ==
  Ask({"GET", "HEAD", "POST"},
      {<<"hotels">>, <<"hotels", "7">>, <<"hotels", "show">>, <<"status">>, <<"status", "index">>,
       <<"show", "7">>, <<"rooms", "show">>, <<"all", "hotels">>, <<"a">>, <<"b">>})
  \cup Ask({"GET"}, {<< >>, <<"rooms", "7", "show">>, <<"hotels", "7", "8">>, <<"jobs", "hotels", "show">>,
                     <<"jobs", "show", "7">>, <<"jobs", "status", "index">>, <<"rooms", "7">>})
  \cup [verb : {"POST"}, override : {"GET"}, path : {<<"hotels">>}]
=============================================================================
