SPECIFICATION BackendSpec
CONSTANTS
  Products = {}
  Settings = {s}
  Licenses = {}
  LicenseOf <- NoLicenses
  Dependencies <- NoDependencies
  Requests = {"none"}
  Values = {v, w}
  Absent = Absent
INVARIANT SecondChangeArrives
