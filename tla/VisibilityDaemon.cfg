\* Two changes among eight settings, and two things that go wrong.
CONSTANTS
    Packages = {app, browser}
    SeesAll = {browser}
    MaxStores = 2
    MaxFaults = 2

SPECIFICATION Spec

INVARIANTS
    CallersOfOneState
    WaitsUpToDate

PROPERTY SettingsTakeEffect
