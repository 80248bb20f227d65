---------------------------- MODULE CourseLibrary ----------------------------
(***************************************************************************)
(* The library screen (src/src/app/screens/CourseLibrary.tsx): the cards   *)
(* of the courses that App has listed, under a search and two filters.     *)
(* The filters are the screen's own state and are lost when it is left;    *)
(* while it is not mounted they have the values it will be mounted with.   *)
(***************************************************************************)
EXTENDS Integers, Sequences, FiniteSets

CONSTANTS
    Courses,        \* the courses the user may generate
    Level,          \* the level each of them is generated with
    Queries,        \* search texts that are tried
    Matches,        \* the courses whose title or description contains a text
    NoQuery,        \* the empty search text
    StatusFilters,  \* the entries of the status filter that are tried
    DifficultyFilters   \* the entries of the difficulty filter that are tried

Statuses == {"not-started", "in-progress", "completed"}
Difficulties == {"beginner", "intermediate", "advanced"}

ASSUME FiltersAssumption ==
    /\ NoQuery \in Queries
    /\ Matches \in [Queries -> SUBSET Courses]
    /\ "all" \in StatusFilters /\ StatusFilters \subseteq Statuses \cup {"all"}
    /\ "all" \in DifficultyFilters /\ DifficultyFilters \subseteq Difficulties \cup {"all"}

VARIABLES
    list,               \* the prop courses: the listed courses, as mapCourse makes them
    loadingCourses,     \* the prop loading
    search,             \* searchQuery
    statusFilter,
    difficultyFilter

filters == <<search, statusFilter, difficultyFilter>>

\* Mutant: a status without a badge and a filter entry of its own.
MapCourseStatusRaw(s) == s

MapCourseStatus(s) ==
    CASE s = "completed"  -> "completed"
      [] s = "processing" -> "in-progress"
      [] OTHER            -> "not-started"

MapDifficulty(v) == IF v \in {"intermediate", "advanced"} THEN v ELSE "beginner"

MapCourse(c, s) == [status |-> MapCourseStatus(s), difficulty |-> MapDifficulty(Level[c])]

filteredCourses ==
    {c \in DOMAIN list :
        /\ search = NoQuery \/ c \in Matches[search]
        /\ statusFilter \in {"all", list[c].status}
        /\ difficultyFilter \in {"all", list[c].difficulty}}

\* Until the first list has come or failed the screen says "Loading courses...".
Cards == IF loadingCourses THEN {} ELSE filteredCourses

LibraryInit ==
    /\ list = <<>>
    /\ loadingCourses = TRUE
    /\ search = NoQuery
    /\ statusFilter = "all"
    /\ difficultyFilter = "all"

\* Mutant: the filters outlive the screen.
LibraryUnmountsFiltered == UNCHANGED filters

LibraryUnmounts == search' = NoQuery /\ statusFilter' = "all" /\ difficultyFilter' = "all"

Search(q) == search' = q /\ UNCHANGED <<statusFilter, difficultyFilter>>
FilterByStatus(s) == statusFilter' = s /\ UNCHANGED <<search, difficultyFilter>>
FilterByDifficulty(d) == difficultyFilter' = d /\ UNCHANGED <<search, statusFilter>>

LibraryStep ==
    /\ \/ \E q \in Queries : Search(q)
       \/ \E s \in StatusFilters : FilterByStatus(s)
       \/ \E d \in DifficultyFilters : FilterByDifficulty(d)
    /\ UNCHANGED <<list, loadingCourses>>

Listings == UNION {[S -> [status : Statuses, difficulty : Difficulties]] : S \in SUBSET Courses}

LibraryTypeOK ==
    /\ list \in Listings
    /\ loadingCourses \in BOOLEAN
    /\ search \in Queries
    /\ statusFilter \in StatusFilters
    /\ difficultyFilter \in DifficultyFilters
==============================================================================
