\* README.md:335, "Drains already queued work before stopping", against the code: a
\* manager that never fails, a stop() that nobody interrupts.
SPECIFICATION Spec
CONSTANTS
    Items = {i1, i2}
    Stoppers = {s1}
    Threshold = 2
    WaitFors = {TRUE, FALSE}
    ReleaseMayRaise = FALSE
    MayInterrupt = FALSE
PROPERTIES
    StopDrains
